---- MODULE Spec2Model ----
(***************************************************************************)
(* Grid editing engine of the dental-clinic floor-plan editor.             *)
(*                                                                         *)
(* The model follows src/App.tsx (second, current copy of the component,   *)
(* lines 822-1840), the preview code of the IsoMap component               *)
(* (src/unnamed/part_001), the inspector of the UIOverlay component        *)
(* (src/unnamed/part_000) and the constants (src/unnamed/part_003).        *)
(*                                                                         *)
(* Optional TypeScript fields (label?, variantX?, ...) are modelled as     *)
(* sequences of length at most one: <<>> is `undefined`, <<v>> is the      *)
(* value v.  The grid is grid[y][x] as in the source, 0-based.  Wall       *)
(* lists are sequences; the source's 0-based wall index i is element i+1.  *)
(***************************************************************************)
EXTENDS Integers, Sequences, FiniteSets, TLC

VARIABLES
    grid,               \* useState<Grid>                       (App.tsx:904)
    history,            \* useState<Grid[]> "past"              (App.tsx:907)
    future,             \* useState<Grid[]>                     (App.tsx:908)
    activeTool,         \* useState<ToolMode>                   (App.tsx:915)
    selectedTilePos,    \* useState<{x,y}|null>                 (App.tsx:916)
    selectedSubTarget,  \* useState<string|undefined>           (App.tsx:917)
    isEditMode,         \* useState<boolean>                    (App.tsx:901)
    user,               \* useState<User|null>                  (App.tsx:896)
    workspaceLoading,   \* useState<boolean>, set and cleared together with
                        \* isLoadingRef                        (App.tsx:898, 931)
    loadedUserIdRef,    \* useRef<string|null>                 (App.tsx:930)
    loadsInFlight,      \* environment: the fetchWorkspace calls not yet settled
    editingInventoryTile, \* useState<{x,y}|null>               (App.tsx:922)
    lastOp,             \* history variable: the last handler that ran and its inputs
    timeline,           \* history variable: the grids of the current line of edits
    cursor,             \* history variable: position of the current grid in timeline
    discarded,          \* history variable: the number of snapshots the last edit dropped
                        \* from future
    worldColor,         \* useState<string>                     (App.tsx:911)
    floorColor,         \* useState<string>                     (App.tsx:912)
    statusMessage,      \* useState<string|null>                (App.tsx:899)
    autosave,           \* the autosave refs                    (App.tsx:934-938)
    effect,             \* React's record of the autosave effect: the dependencies of its
                        \* last run and whether that run left a cleanup
    store,              \* environment: the remote store and the request it is serving
    payloadOrder,       \* history variable: the holders of an autosave payload (the
                        \* debounce timer, the queue, the request, the store), from
                        \* the oldest payload to the newest
    dragStart,          \* IsoMap useState<{x,y,subTarget}|null> (part_001:37)
    hoveredTile,        \* IsoMap useState<{x,y,subTarget}|null> (part_001:35)
    gesture,            \* environment: where the pointer button went down, while it is down
    pointerLog,         \* history variable: the last pointer event and the engine call
                        \* it made
    mem                 \* the JavaScript objects behind grid, history and future: a heap
                        \* and the references the three states hold

\* the workspace synchronisation: colours, status line, autosave and the remote store
sync == <<worldColor, floorColor, statusMessage, autosave, effect, store, payloadOrder>>

\* the state of the IsoMap component and of the pointer
iso == <<dragStart, hoveredTile, gesture, pointerLog>>

\* the state the handlers of App work on
appVars == <<grid, history, future, activeTool, selectedTilePos, selectedSubTarget,
             isEditMode, user, workspaceLoading, loadedUserIdRef, loadsInFlight,
             editingInventoryTile,
             lastOp, timeline, cursor, discarded,
             worldColor, floorColor, statusMessage, autosave, effect, store,
             payloadOrder>>

vars == <<grid, history, future, activeTool, selectedTilePos, selectedSubTarget,
          isEditMode, user, workspaceLoading, loadedUserIdRef, loadsInFlight,
             editingInventoryTile,
          lastOp, timeline, cursor, discarded,
          worldColor, floorColor, statusMessage, autosave, effect, store, payloadOrder,
          dragStart, hoveredTile, gesture, pointerLog, mem>>

\* the session and the inventory dialog, which the editing handlers leave alone
session == <<user, workspaceLoading, loadedUserIdRef, loadsInFlight, editingInventoryTile>>

\* the bookkeeping of loadWorkspace
loader == <<loadedUserIdRef, loadsInFlight>>

----------------------------------------------------------------------------
(* Program constants *)

GRID_SIZE == 15
LARGE_ROOM_SIZE == 5

(* Bounds of the model *)

\* the fetchWorkspace calls followed at a time
MaxLoads == 2

\* pushHistory is not called once `history` holds this many snapshots
MaxHistory == 2
\* wall sub-targets wall:0 .. wall:MaxWallIndex are offered to the handlers
MaxWallIndex == 1
\* the remote store becomes unreachable at most this many times
MaxOutages == 1
\* the specification that follows the objects of the heap stops after this many edits
MaxEdits == 2

----------------------------------------------------------------------------
(* Optional values *)

Undefined == << >>
Some(v) == << v >>
IsDefined(o) == Len(o) > 0
Val(o) == o[1]

Coords == 0 .. (GRID_SIZE - 1)
Offsets == 0 .. (LARGE_ROOM_SIZE - 1)

Min(a, b) == IF a < b THEN a ELSE b
Max(a, b) == IF a > b THEN a ELSE b

RoomTypes == {"None", "WaitingRoom", "OperatorySuite", "ImagingSuite",
              "StraightWall", "Door", "Window"}
ToolModes == RoomTypes \cup {"Select"}

----------------------------------------------------------------------------
(* Classification helpers *)

\* App.tsx: the classifier used by the engine
isLargeRoomType(type) ==
    type = "WaitingRoom" \/ type = "ImagingSuite"

\* IsoMapConstants.ts: the classifier used by the preview / drag validity code
IsoMap_isLargeRoomType(type) ==
    type = "WaitingRoom" \/ type = "OperatorySuite" \/ type = "ImagingSuite"

isStructureType(type) ==
    type = "StraightWall" \/ type = "Door" \/ type = "Window"

----------------------------------------------------------------------------
(* Tiles and grids *)

\* mutation of EmptyTile: the reset forgets the cell's walls
EmptyTile_noWalls(x, y, walls) ==
    [x |-> x, y |-> y, roomType |-> "None", rotation |-> 0,
     label |-> << >>, customColor |-> << >>,
     variantX |-> << >>, variantY |-> << >>,
     hasInventory |-> << >>, inventoryItems |-> << >>,
     placedWalls |-> << >>]

\* a tile literal { x, y, roomType: None, rotation: 0, placedWalls }
EmptyTile(x, y, walls) ==
    [x |-> x, y |-> y, roomType |-> "None", rotation |-> 0,
     label |-> Undefined, customColor |-> Undefined,
     variantX |-> Undefined, variantY |-> Undefined,
     hasInventory |-> Undefined, inventoryItems |-> Undefined,
     placedWalls |-> walls]

createInitialGrid ==
    [y \in Coords |-> [x \in Coords |-> EmptyTile(x, y, << >>)]]

\* mutation of findIndex: the existing wall is never found
findIndex_absent(walls, rot) == 0

\* walls.findIndex(w => w.rotation === rot), 1-based, 0 when absent
findIndex(walls, rot) ==
    IF \E i \in 1 .. Len(walls) : walls[i].rotation = rot
    THEN CHOOSE i \in 1 .. Len(walls) :
            /\ walls[i].rotation = rot
            /\ \A j \in 1 .. (i - 1) : walls[j].rotation # rot
    ELSE 0

\* walls.splice(i, 1) on a copy, i 1-based
splice(walls, i) ==
    SubSeq(walls, 1, i - 1) \o SubSeq(walls, i + 1, Len(walls))

\* placedWalls[wallIndex] is truthy; sub is Undefined or Some(0-based index)
hasWallAt(tile, sub) ==
    IsDefined(sub) /\ Val(sub) + 1 \in 1 .. Len(tile.placedWalls)

\* mutation of isPerimeter: the east and west edges are swapped
isPerimeter_swapped(rot, vx, vy) ==
    \/ rot = 0 /\ vy = 0
    \/ rot = 1 /\ vx = 0
    \/ rot = 2 /\ vy = 4
    \/ rot = 3 /\ vx = 4

\* the perimeter test of a wall rotation against a member's offsets
isPerimeter(rot, vx, vy) ==
    \/ rot = 0 /\ vy = 0
    \/ rot = 1 /\ vx = LARGE_ROOM_SIZE - 1
    \/ rot = 2 /\ vy = LARGE_ROOM_SIZE - 1
    \/ rot = 3 /\ vx = 0

\* Math.floor(v / LARGE_ROOM_SIZE) * LARGE_ROOM_SIZE
floorAnchor(v) == (v \div LARGE_ROOM_SIZE) * LARGE_ROOM_SIZE

\* a mapping that turns the same way for rot = 1 and rot = 3
getEffectiveVariant_oneWay(vx, vy, rot) ==
    LET centerOffset == LARGE_ROOM_SIZE \div 2
        cx == vx - centerOffset
        cy == vy - centerOffset
    IN  IF rot = 0 THEN [col |-> vx, row |-> vy]
        ELSE IF rot = 2 THEN [col |-> -cx + centerOffset, row |-> -cy + centerOffset]
        ELSE [col |-> cy + centerOffset, row |-> -cx + centerOffset]

\* getEffectiveVariant(vx, vy, rot): the design position RoomFurniture draws at the
\* member with the offsets (vx, vy) of a room turned rot quarter turns
getEffectiveVariant(vx, vy, rot) ==
    LET centerOffset == LARGE_ROOM_SIZE \div 2
        cx == vx - centerOffset
        cy == vy - centerOffset
        nx == IF rot = 1 THEN cy ELSE IF rot = 2 THEN -cx ELSE IF rot = 3 THEN -cy ELSE cx
        ny == IF rot = 1 THEN -cx ELSE IF rot = 2 THEN -cy ELSE IF rot = 3 THEN cx ELSE cy
    IN  IF rot = 0 THEN [col |-> vx, row |-> vy]
        ELSE [col |-> nx + centerOffset, row |-> ny + centerOffset]

hasVariant(tile) == IsDefined(tile.variantX) /\ IsDefined(tile.variantY)

\* anchor of the large room a tile belongs to: variant offsets, else legacy fallback
anchorX(tile, x) == IF hasVariant(tile) THEN x - Val(tile.variantX) ELSE floorAnchor(x)
anchorY(tile, y) == IF hasVariant(tile) THEN y - Val(tile.variantY) ELSE floorAnchor(y)

inBlock(x, y, ax, ay) ==
    /\ x >= ax /\ x < ax + LARGE_ROOM_SIZE
    /\ y >= ay /\ y < ay + LARGE_ROOM_SIZE

inGrid(x, y) == x >= 0 /\ x < GRID_SIZE /\ y >= 0 /\ y < GRID_SIZE

----------------------------------------------------------------------------
(* handleTileClick: the setGrid updater, one operator per tool branch.     *)
(* A brush is the brushSettings record the click reads:                    *)
(* [rotation, customColor, label, hasInventory].                           *)

\* STRUCTURE TOOL (walls, doors, windows)
structureUpdater(prevGrid, tool, x, y, brush) ==
    LET currentTile == prevGrid[y][x]
        walls == currentTile.placedWalls
        rotationToPlace == brush.rotation
        vx == IF IsDefined(currentTile.variantX) THEN Val(currentTile.variantX) ELSE 0
        vy == IF IsDefined(currentTile.variantY) THEN Val(currentTile.variantY) ELSE 0
        existingIdx == findIndex(walls, rotationToPlace)
        newWallData == [type |-> tool, rotation |-> rotationToPlace,
                        customColor |-> brush.customColor]
        newWalls == IF existingIdx > 0
                    THEN [walls EXCEPT ![existingIdx] = newWallData]
                    ELSE Append(walls, newWallData)
    IN  IF isLargeRoomType(currentTile.roomType) /\ ~isPerimeter(rotationToPlace, vx, vy)
        THEN prevGrid
        ELSE [prevGrid EXCEPT ![y][x] = [currentTile EXCEPT !.placedWalls = newWalls]]

\* mutation of eraseUpdater: a large room is erased like a single tile
eraseUpdater_clickedOnly(prevGrid, x, y, subTarget) ==
    IF IsDefined(subTarget) /\ Val(subTarget) + 1 \in 1 .. Len(prevGrid[y][x].placedWalls)
    THEN [prevGrid EXCEPT ![y][x].placedWalls =
            SubSeq(@, 1, Val(subTarget)) \o SubSeq(@, Val(subTarget) + 2, Len(@))]
    ELSE IF prevGrid[y][x].roomType = "None"
    THEN prevGrid
    ELSE [prevGrid EXCEPT ![y][x] =
            [x |-> x, y |-> y, roomType |-> "None", rotation |-> 0,
             label |-> << >>, customColor |-> << >>,
             variantX |-> << >>, variantY |-> << >>,
             hasInventory |-> << >>, inventoryItems |-> << >>,
             placedWalls |-> prevGrid[y][x].placedWalls]]

\* ERASE TOOL
eraseUpdater(prevGrid, x, y, subTarget) ==
    LET currentTile == prevGrid[y][x]
        startX == anchorX(currentTile, x)
        startY == anchorY(currentTile, y)
        typeToErase == currentTile.roomType
    IN  IF hasWallAt(currentTile, subTarget)
        THEN [prevGrid EXCEPT ![y][x] =
                [currentTile EXCEPT !.placedWalls = splice(@, Val(subTarget) + 1)]]
        ELSE IF currentTile.roomType = "None"
        THEN prevGrid
        ELSE IF isLargeRoomType(currentTile.roomType)
        THEN [ty \in Coords |-> [tx \in Coords |->
                IF inBlock(tx, ty, startX, startY) /\ prevGrid[ty][tx].roomType = typeToErase
                THEN EmptyTile(tx, ty, prevGrid[ty][tx].placedWalls)
                ELSE prevGrid[ty][tx]]]
        ELSE [prevGrid EXCEPT ![y][x] = EmptyTile(x, y, currentTile.placedWalls)]

\* clamp(click - floor(SIZE/2), 0, GRID_SIZE - SIZE)
clampedStart(v) ==
    Max(0, Min(v - (LARGE_ROOM_SIZE \div 2), GRID_SIZE - LARGE_ROOM_SIZE))

\* mutation of isBlocked: only the anchor cell is tested
isBlocked_anchorOnly(prevGrid, startX, startY) ==
    prevGrid[startY][startX].roomType # "None"

isBlocked(prevGrid, startX, startY) ==
    \E dy \in Offsets : \E dx \in Offsets :
        prevGrid[startY + dy][startX + dx].roomType # "None"

\* ROOM TOOL, large branch
largeRoomUpdater(prevGrid, tool, x, y, brush) ==
    LET startX == clampedStart(x)
        startY == clampedStart(y)
    IN  IF isBlocked(prevGrid, startX, startY)
        THEN prevGrid
        ELSE [ty \in Coords |-> [tx \in Coords |->
                IF inBlock(tx, ty, startX, startY)
                THEN LET dx == tx - startX
                         dy == ty - startY
                         isCenter == (dx = 2 /\ dy = 2)
                     IN  [prevGrid[ty][tx] EXCEPT
                            !.roomType = tool,
                            !.rotation = brush.rotation,
                            !.label = IF isCenter THEN brush.label ELSE Undefined,
                            !.customColor = brush.customColor,
                            !.variantX = Some(dx),
                            !.variantY = Some(dy),
                            !.hasInventory = Some(isCenter /\ brush.hasInventory),
                            !.inventoryItems = Undefined]
                ELSE prevGrid[ty][tx]]]

\* mutation of singleRoomUpdater: an occupied cell is overwritten
singleRoomUpdater_overwrite(prevGrid, tool, x, y, brush) ==
    [prevGrid EXCEPT ![y][x] =
        [@ EXCEPT !.roomType = tool,
                  !.rotation = brush.rotation,
                  !.label = brush.label,
                  !.customColor = brush.customColor,
                  !.variantX = << >>,
                  !.variantY = << >>,
                  !.hasInventory = << brush.hasInventory >>,
                  !.inventoryItems = << >>]]

\* ROOM TOOL, single-tile branch
singleRoomUpdater(prevGrid, tool, x, y, brush) ==
    IF prevGrid[y][x].roomType # "None"
    THEN prevGrid
    ELSE [prevGrid EXCEPT ![y][x] =
            [@ EXCEPT !.roomType = tool,
                      !.rotation = brush.rotation,
                      !.label = brush.label,
                      !.customColor = brush.customColor,
                      !.variantX = Undefined,
                      !.variantY = Undefined,
                      !.hasInventory = Some(brush.hasInventory),
                      !.inventoryItems = Undefined]]

\* the whole updater passed to setGrid in Paint / Edit mode
clickUpdater(prevGrid, tool, x, y, subTarget, brush) ==
    IF isStructureType(tool) THEN structureUpdater(prevGrid, tool, x, y, brush)
    ELSE IF tool = "None" THEN eraseUpdater(prevGrid, x, y, subTarget)
    ELSE IF isLargeRoomType(tool) THEN largeRoomUpdater(prevGrid, tool, x, y, brush)
    ELSE singleRoomUpdater(prevGrid, tool, x, y, brush)

----------------------------------------------------------------------------
(* handleTileMove: validation and the setGrid updater *)

\* mutation of wallMoveAccepted: the perimeter test of the target is left out
wallMoveAccepted_noPerimeter(g, fx, fy, tx, ty, subTarget) ==
    /\ IsDefined(subTarget) /\ subTarget[1] + 1 \in 1 .. Len(g[fy][fx].placedWalls)
    /\ \A i \in 1 .. Len(g[ty][tx].placedWalls) :
          g[ty][tx].placedWalls[i].rotation # g[fy][fx].placedWalls[subTarget[1] + 1].rotation

\* WALL MOVE validation: TRUE when the handler reaches pushHistory
wallMoveAccepted(g, fx, fy, tx, ty, subTarget) ==
    LET sourceTile == g[fy][fx]
        targetTile == g[ty][tx]
        w == sourceTile.placedWalls[Val(subTarget) + 1]
        vx == IF hasVariant(targetTile) THEN Val(targetTile.variantX) ELSE tx - floorAnchor(tx)
        vy == IF hasVariant(targetTile) THEN Val(targetTile.variantY) ELSE ty - floorAnchor(ty)
    IN  /\ hasWallAt(sourceTile, subTarget)
        /\ findIndex(targetTile.placedWalls, w.rotation) = 0
        /\ isLargeRoomType(targetTile.roomType) => isPerimeter(w.rotation, vx, vy)

wallMoveUpdater(prevGrid, fx, fy, tx, ty, subTarget) ==
    LET sTile == prevGrid[fy][fx]
        wallToMove == sTile.placedWalls[Val(subTarget) + 1]
        moved == [prevGrid EXCEPT ![fy][fx] =
                    [sTile EXCEPT !.placedWalls = splice(@, Val(subTarget) + 1)]]
    IN  IF ~hasWallAt(sTile, subTarget)
        THEN prevGrid
        ELSE [moved EXCEPT ![ty][tx] =
                [@ EXCEPT !.placedWalls = Append(@, wallToMove)]]

\* ROOM MOVE validation
targetAnchorX(g, fx, fy, tx) == tx - (fx - anchorX(g[fy][fx], fx))
targetAnchorY(g, fx, fy, ty) == ty - (fy - anchorY(g[fy][fx], fy))

largeMoveAccepted(g, fx, fy, tx, ty) ==
    LET sourceTile == g[fy][fx]
        sourceAnchorX == anchorX(sourceTile, fx)
        sourceAnchorY == anchorY(sourceTile, fy)
        tAX == targetAnchorX(g, fx, fy, tx)
        tAY == targetAnchorY(g, fx, fy, ty)
    IN  /\ ~(tAX < 0 \/ tAY < 0
             \/ tAX + (LARGE_ROOM_SIZE - 1) >= GRID_SIZE
             \/ tAY + (LARGE_ROOM_SIZE - 1) >= GRID_SIZE)
        /\ \A dy \in Offsets : \A dx \in Offsets :
              LET cx == tAX + dx
                  cy == tAY + dy
                  isSelf == inBlock(cx, cy, sourceAnchorX, sourceAnchorY)
              IN  ~(~isSelf /\ g[cy][cx].roomType # "None")

roomMoveAccepted(g, fx, fy, tx, ty) ==
    IF isLargeRoomType(g[fy][fx].roomType)
    THEN largeMoveAccepted(g, fx, fy, tx, ty)
    ELSE g[ty][tx].roomType = "None"

\* mutation of largeMoveUpdater: the source footprint is not cleared
largeMoveUpdater_keepSource(prevGrid, fx, fy, tx, ty) ==
    LET sAX == IF Len(prevGrid[fy][fx].variantX) > 0 THEN fx - prevGrid[fy][fx].variantX[1]
               ELSE (fx \div 5) * 5
        sAY == IF Len(prevGrid[fy][fx].variantY) > 0 THEN fy - prevGrid[fy][fx].variantY[1]
               ELSE (fy \div 5) * 5
        tAX == tx - (fx - sAX)
        tAY == ty - (fy - sAY)
    IN  [cy \in 0 .. 14 |-> [cx \in 0 .. 14 |->
            IF cx >= tAX /\ cx < tAX + 5 /\ cy >= tAY /\ cy < tAY + 5
            THEN [prevGrid[sAY + (cy - tAY)][sAX + (cx - tAX)] EXCEPT
                    !.x = cx, !.y = cy,
                    !.variantX = << cx - tAX >>, !.variantY = << cy - tAY >>,
                    !.placedWalls = prevGrid[cy][cx].placedWalls]
            ELSE prevGrid[cy][cx]]]

\* mutation of largeMoveUpdater: Set New copies the source tile with its walls
largeMoveUpdater_withWalls(prevGrid, fx, fy, tx, ty) ==
    LET sAX == IF Len(prevGrid[fy][fx].variantX) > 0 THEN fx - prevGrid[fy][fx].variantX[1]
               ELSE (fx \div 5) * 5
        sAY == IF Len(prevGrid[fy][fx].variantY) > 0 THEN fy - prevGrid[fy][fx].variantY[1]
               ELSE (fy \div 5) * 5
        tAX == tx - (fx - sAX)
        tAY == ty - (fy - sAY)
    IN  [cy \in 0 .. 14 |-> [cx \in 0 .. 14 |->
            IF cx >= tAX /\ cx < tAX + 5 /\ cy >= tAY /\ cy < tAY + 5
            THEN [prevGrid[sAY + (cy - tAY)][sAX + (cx - tAX)] EXCEPT
                    !.x = cx, !.y = cy,
                    !.variantX = << cx - tAX >>, !.variantY = << cy - tAY >>]
            ELSE IF cx >= sAX /\ cx < sAX + 5 /\ cy >= sAY /\ cy < sAY + 5
            THEN [prevGrid[cy][cx] EXCEPT
                    !.roomType = "None", !.rotation = 0, !.label = << >>,
                    !.customColor = << >>, !.variantX = << >>, !.variantY = << >>,
                    !.hasInventory = << >>, !.inventoryItems = << >>]
            ELSE prevGrid[cy][cx]]]

largeMoveUpdater(prevGrid, fx, fy, tx, ty) ==
    LET sourceAnchorX == anchorX(prevGrid[fy][fx], fx)
        sourceAnchorY == anchorY(prevGrid[fy][fx], fy)
        tAX == targetAnchorX(prevGrid, fx, fy, tx)
        tAY == targetAnchorY(prevGrid, fx, fy, ty)
    IN  [cy \in Coords |-> [cx \in Coords |->
            IF inBlock(cx, cy, tAX, tAY)
            THEN \* 2. Set New
                 [prevGrid[sourceAnchorY + (cy - tAY)][sourceAnchorX + (cx - tAX)] EXCEPT
                    !.x = cx, !.y = cy,
                    !.variantX = Some(cx - tAX), !.variantY = Some(cy - tAY),
                    !.placedWalls = prevGrid[cy][cx].placedWalls]
            ELSE IF inBlock(cx, cy, sourceAnchorX, sourceAnchorY)
            THEN \* 1. Clear Old
                 EmptyTile(cx, cy, prevGrid[cy][cx].placedWalls)
            ELSE prevGrid[cy][cx]]]

\* mutation of singleMoveUpdater: the walls travel with the room
singleMoveUpdater_withWalls(prevGrid, fx, fy, tx, ty) ==
    [prevGrid EXCEPT
        ![ty][tx] = [prevGrid[fy][fx] EXCEPT !.x = tx, !.y = ty],
        ![fy][fx] = [prevGrid[ty][tx] EXCEPT !.x = fx, !.y = fy, !.roomType = "None",
                        !.rotation = 0, !.label = << >>, !.customColor = << >>,
                        !.variantX = << >>, !.variantY = << >>,
                        !.hasInventory = << >>, !.inventoryItems = << >>]]

\* mutation of singleMoveUpdater: the target gets the source record as it is, { ...tileFrom }
singleMoveUpdater_copied(prevGrid, fx, fy, tx, ty) ==
    [prevGrid EXCEPT
        ![ty][tx] = [prevGrid[fy][fx] EXCEPT !.placedWalls = prevGrid[ty][tx].placedWalls],
        ![fy][fx] = [x |-> fx, y |-> fy, roomType |-> "None", rotation |-> 0,
                     label |-> << >>, customColor |-> << >>,
                     variantX |-> << >>, variantY |-> << >>,
                     hasInventory |-> << >>, inventoryItems |-> << >>,
                     placedWalls |-> prevGrid[fy][fx].placedWalls]]

singleMoveUpdater(prevGrid, fx, fy, tx, ty) ==
    LET tileFrom == prevGrid[fy][fx]
        tileTo == prevGrid[ty][tx]
    IN  [prevGrid EXCEPT
            ![ty][tx] = [tileFrom EXCEPT !.x = tx, !.y = ty,
                                         !.placedWalls = tileTo.placedWalls],
            ![fy][fx] = EmptyTile(fx, fy, tileFrom.placedWalls)]

roomMoveUpdater(prevGrid, fx, fy, tx, ty) ==
    IF isLargeRoomType(prevGrid[fy][fx].roomType)
    THEN largeMoveUpdater(prevGrid, fx, fy, tx, ty)
    ELSE singleMoveUpdater(prevGrid, fx, fy, tx, ty)

\* whether handleTileMove reaches pushHistory / setGrid for these inputs
moveAccepted(g, fx, fy, tx, ty, subTarget) ==
    /\ ~(fx = tx /\ fy = ty)
    /\ IF IsDefined(subTarget)
       THEN wallMoveAccepted(g, fx, fy, tx, ty, subTarget)
       ELSE roomMoveAccepted(g, fx, fy, tx, ty)

moveUpdater(prevGrid, fx, fy, tx, ty, subTarget) ==
    IF IsDefined(subTarget)
    THEN wallMoveUpdater(prevGrid, fx, fy, tx, ty, subTarget)
    ELSE roomMoveUpdater(prevGrid, fx, fy, tx, ty)

\* the grid handleTileMove leaves behind: the updater's result, or the input on rejection
movedGrid(g, fx, fy, tx, ty, subTarget) ==
    IF moveAccepted(g, fx, fy, tx, ty, subTarget)
    THEN moveUpdater(g, fx, fy, tx, ty, subTarget)
    ELSE g

----------------------------------------------------------------------------
(* IsoMap: preview of a placement, hoveredTile = (x, y), no drag, readOnly   *)
(* is false and the tool is a room or a structure tool.                      *)

\* previewTiles: the cells the cursor highlights
previewTiles(g, tool, x, y) ==
    IF IsoMap_isLargeRoomType(tool)
    THEN {c \in Coords \X Coords : inBlock(c[1], c[2], clampedStart(x), clampedStart(y))}
    ELSE {<< x, y >>}

\* isValidPlacement
isValidPlacement(g, tool, x, y, brush) ==
    LET target == g[y][x]
        vx == IF IsDefined(target.variantX) THEN Val(target.variantX) ELSE 0
        vy == IF IsDefined(target.variantY) THEN Val(target.variantY) ELSE 0
    IN  IF isStructureType(tool)
        THEN IsoMap_isLargeRoomType(target.roomType) => isPerimeter(brush.rotation, vx, vy)
        ELSE ~\E t \in previewTiles(g, tool, x, y) : g[t[2]][t[1]].roomType # "None"

----------------------------------------------------------------------------

(* IsoMap: validity of the current drag (preview colour), dragStart =      *)
(* (fx, fy, subTarget), hoveredTile = (tx, ty); readOnly is false.         *)

isDragValid(g, fx, fy, tx, ty, subTarget) ==
    LET dragSourceTile == g[fy][fx]
        targetTile == g[ty][tx]
        isDragging == ~(fx = tx /\ fy = ty)
        movingWall == dragSourceTile.placedWalls[Val(subTarget) + 1]
        wvx == IF hasVariant(targetTile) THEN Val(targetTile.variantX) ELSE tx - floorAnchor(tx)
        wvy == IF hasVariant(targetTile) THEN Val(targetTile.variantY) ELSE ty - floorAnchor(ty)
        sourceAnchorX == anchorX(dragSourceTile, fx)
        sourceAnchorY == anchorY(dragSourceTile, fy)
        tAX == tx - (fx - sourceAnchorX)
        tAY == ty - (fy - sourceAnchorY)
    IN  IF ~isDragging THEN TRUE
        ELSE IF IsDefined(subTarget)
        THEN IF hasWallAt(dragSourceTile, subTarget)
             THEN /\ findIndex(targetTile.placedWalls, movingWall.rotation) = 0
                  /\ IsoMap_isLargeRoomType(targetTile.roomType)
                        => isPerimeter(movingWall.rotation, wvx, wvy)
             ELSE TRUE
        ELSE IF IsoMap_isLargeRoomType(dragSourceTile.roomType)
        THEN /\ ~(tAX < 0 \/ tAY < 0
                  \/ tAX + (LARGE_ROOM_SIZE - 1) >= GRID_SIZE
                  \/ tAY + (LARGE_ROOM_SIZE - 1) >= GRID_SIZE)
             /\ \A dy \in Offsets : \A dx \in Offsets :
                   ~(/\ ~inBlock(tAX + dx, tAY + dy, sourceAnchorX, sourceAnchorY)
                     /\ g[tAY + dy][tAX + dx].roomType # "None")
        ELSE g[ty][tx].roomType = "None"

----------------------------------------------------------------------------
(* Inspector: the tile shown in the inspector and the updates it can send  *)

\* selectedTileData of App's render: the selected wall overlays the tile
selectedTileData(g, pos, subTarget) ==
    LET tile == g[pos[2]][pos[1]]
        wall == tile.placedWalls[Val(subTarget) + 1]
    IN  IF hasWallAt(tile, subTarget)
        THEN [tile EXCEPT !.roomType = wall.type,
                          !.rotation = wall.rotation,
                          !.customColor = wall.customColor,
                          !.label = Undefined,
                          !.hasInventory = Some(FALSE)]
        ELSE tile

\* palette colours offered by the inspector (a sample) plus "reset"
InspectorColors == {Undefined, Some("#ef4444")}
InspectorLabels == {"Dr. Smith"}

\* the update objects InspectorControls can pass to onUpdate for `data`
inspectorUpdates(data) ==
    {[key |-> "rotation", value |-> (data.rotation + 1) % 4]}
    \cup {[key |-> "customColor", value |-> c] : c \in InspectorColors}
    \cup (IF isStructureType(data.roomType) THEN {}
          ELSE {[key |-> "label", value |-> Some(l)] : l \in InspectorLabels}
               \cup {[key |-> "hasInventory",
                      value |-> Some(~(IsDefined(data.hasInventory) /\ Val(data.hasInventory)))]})

\* { ...tile, ...updates }
applyUpdates(tile, updates) ==
    CASE updates.key = "rotation" -> [tile EXCEPT !.rotation = updates.value]
      [] updates.key = "customColor" -> [tile EXCEPT !.customColor = updates.value]
      [] updates.key = "label" -> [tile EXCEPT !.label = updates.value]
      [] updates.key = "hasInventory" -> [tile EXCEPT !.hasInventory = updates.value]

\* handleInspectorUpdate, wall branch: the new wall record
updatedWall(wall, updates) ==
    CASE updates.key = "rotation" -> [wall EXCEPT !.rotation = updates.value]
      [] updates.key = "customColor" /\ IsDefined(updates.value)
            -> [wall EXCEPT !.customColor = updates.value]
      [] OTHER -> wall

wallInspectorUpdater(prevGrid, pos, subTarget, updates) ==
    LET tile == prevGrid[pos[2]][pos[1]]
        i == Val(subTarget) + 1
    IN  IF hasWallAt(tile, subTarget)
        THEN [prevGrid EXCEPT ![pos[2]][pos[1]] =
                [tile EXCEPT !.placedWalls =
                    [@ EXCEPT ![i] = updatedWall(@, updates)]]]
        ELSE prevGrid

\* updateSelectedTile: fan-out over the block for a large room
\* mutation of updateSelectedTileUpdater: the block starts at the selected cell
updateSelectedTileUpdater_fromSelection(prevGrid, pos, updates) ==
    IF isLargeRoomType(prevGrid[pos[2]][pos[1]].roomType)
    THEN [ty \in Coords |-> [tx \in Coords |->
            IF inBlock(tx, ty, pos[1], pos[2])
               /\ prevGrid[ty][tx].roomType = prevGrid[pos[2]][pos[1]].roomType
            THEN applyUpdates(prevGrid[ty][tx], updates)
            ELSE prevGrid[ty][tx]]]
    ELSE [prevGrid EXCEPT ![pos[2]][pos[1]] = applyUpdates(@, updates)]

updateSelectedTileUpdater(prevGrid, pos, updates) ==
    LET x == pos[1]
        y == pos[2]
        tile == prevGrid[y][x]
        startX == IF hasVariant(tile) THEN x - Val(tile.variantX) ELSE x
        startY == IF hasVariant(tile) THEN y - Val(tile.variantY) ELSE y
    IN  IF isLargeRoomType(tile.roomType)
        THEN [ty \in Coords |-> [tx \in Coords |->
                IF inBlock(tx, ty, startX, startY) /\ prevGrid[ty][tx].roomType = tile.roomType
                THEN applyUpdates(prevGrid[ty][tx], updates)
                ELSE prevGrid[ty][tx]]]
        ELSE [prevGrid EXCEPT ![y][x] = applyUpdates(@, updates)]

inspectorUpdater(prevGrid, pos, subTarget, updates) ==
    IF IsDefined(subTarget)
    THEN wallInspectorUpdater(prevGrid, pos, subTarget, updates)
    ELSE updateSelectedTileUpdater(prevGrid, pos, updates)

\* ProceduralRoom: the inventory icon is rendered on this tile
\* ROOMS[type].name
roomName(type) ==
    CASE type = "None" -> "Clear"
      [] type = "WaitingRoom" -> "Waiting Room"
      [] type = "OperatorySuite" -> "Operatory"
      [] type = "ImagingSuite" -> "Imaging Suite"
      [] type = "StraightWall" -> "Straight Wall"
      [] type = "Door" -> "Door"
      [] type = "Window" -> "Window"

\* a JavaScript string that is neither undefined nor empty
truthy(s) == IsDefined(s) /\ Val(s) # ""

\* mutation of locationName: the label is not looked at
locationName_roomOnly(tile) == roomName(tile.roomType)

\* tile.label || roomName || `Room ${tile.x},${tile.y}`
locationName(tile) ==
    IF truthy(tile.label) THEN Val(tile.label)
    ELSE IF roomName(tile.roomType) # "" THEN roomName(tile.roomType)
    ELSE << "Room", tile.x, tile.y >>

\* item.location of an item of the grid: InventoryModal builds items from its form,
\* which has no location field, and no other code writes one
itemLocation(item) == Undefined

\* the entries the inner forEach pushes for one tile
tileEntries(tile) ==
    IF IsDefined(tile.inventoryItems) /\ Len(Val(tile.inventoryItems)) > 0
    THEN [j \in 1 .. Len(Val(tile.inventoryItems)) |->
            [item |-> Val(tile.inventoryItems)[j],
             location |-> IF truthy(itemLocation(Val(tile.inventoryItems)[j]))
                          THEN Val(itemLocation(Val(tile.inventoryItems)[j]))
                          ELSE locationName(tile),
             tileX |-> tile.x,
             tileY |-> tile.y]]
    ELSE << >>

\* row.forEach(tile => ...) from the tile x on
RECURSIVE rowEntriesFrom(_, _)
rowEntriesFrom(row, x) ==
    IF x >= GRID_SIZE THEN << >>
    ELSE tileEntries(row[x]) \o rowEntriesFrom(row, x + 1)

\* grid.forEach(row => ...) from the row y on
RECURSIVE aggregatedFrom(_, _)
aggregatedFrom(g, y) ==
    IF y >= GRID_SIZE THEN << >>
    ELSE rowEntriesFrom(g[y], 0) \o aggregatedFrom(g, y + 1)

\* aggregatedInventoryItems
aggregatedInventoryItems(g) == aggregatedFrom(g, 0)

showInventory(tile) ==
    /\ IsDefined(tile.hasInventory) /\ Val(tile.hasInventory)
    /\ \/ ~IsDefined(tile.variantX) /\ ~IsDefined(tile.variantY)
       \/ tile.variantX = Some(2) /\ tile.variantY = Some(2)

\* mutation of saveInventoryUpdater: the items are written to every member of the room
saveInventoryUpdater_room(prevGrid, x, y, items) ==
    [ty \in Coords |-> [tx \in Coords |->
        IF (tx = x /\ ty = y)
           \/ (hasVariant(prevGrid[y][x]) /\ hasVariant(prevGrid[ty][tx])
               /\ prevGrid[ty][tx].roomType = prevGrid[y][x].roomType
               /\ tx - Val(prevGrid[ty][tx].variantX) = x - Val(prevGrid[y][x].variantX)
               /\ ty - Val(prevGrid[ty][tx].variantY) = y - Val(prevGrid[y][x].variantY))
        THEN [prevGrid[ty][tx] EXCEPT !.inventoryItems = Some(items)]
        ELSE prevGrid[ty][tx]]]

\* handleSaveInventory: newGrid[y][x] = { ...newGrid[y][x], inventoryItems: items }
saveInventoryUpdater(prevGrid, x, y, items) ==
    [prevGrid EXCEPT ![y][x] = [@ EXCEPT !.inventoryItems = Some(items)]]

----------------------------------------------------------------------------
(* History *)

\* mutation of pushedHistory: a second snapshot is pushed by the same edit
pushedHistory_twice(prev, g) == Append(Append(prev, g), g)

\* pushHistory: setHistory(prev => [...prev, grid])
pushedHistory(prev, g) == Append(prev, g)

\* mutation of pushedFuture: the redo stack survives an edit
pushedFuture_kept(prev) == prev

\* pushHistory: setFuture([])
pushedFuture(prev) == << >>

\* mutation of undoPrevious: the oldest snapshot is taken instead of the latest
undoPrevious_oldest(h) == h[1]

\* undo: previous = history[history.length - 1]
undoPrevious(h) == h[Len(h)]
undoHistory(h) == SubSeq(h, 1, Len(h) - 1)

\* mutation of undoFuture: the undone grid goes to the back of future
undoFuture_back(f, g) == Append(f, g)

undoFuture(f, g) == << g >> \o f

\* undo as a whole: the <<grid, history, future>> it leaves behind
undoResult(g, h, f) ==
    IF Len(h) = 0
    THEN << g, h, f >>
    ELSE << undoPrevious(h), undoHistory(h), undoFuture(f, g) >>

\* redo: next = future[0]
redoNext(f) == f[1]
redoHistory(h, g) == Append(h, g)
redoFuture(f) == SubSeq(f, 2, Len(f))

\* redo as a whole: the <<grid, history, future>> it leaves behind
redoResult(g, h, f) ==
    IF Len(f) = 0
    THEN << g, h, f >>
    ELSE << redoNext(f), redoHistory(h, g), redoFuture(f) >>

----------------------------------------------------------------------------
(* Inputs offered to the handlers *)

\* brushSettings values the brush inspector can have set before a click
PlainBrush(r) ==
    [rotation |-> r, customColor |-> Undefined, label |-> Some(""), hasInventory |-> FALSE]
StyledBrush(r) ==
    [rotation |-> r, customColor |-> Some("#ef4444"), label |-> Some("Dr. Smith"),
     hasInventory |-> TRUE]

\* sub-targets the rendered tile can deliver: none, or wall:i of a rendered wall
subTargetsAt(tile) ==
    {Undefined} \cup {Some(i) : i \in 0 .. Min(Len(tile.placedWalls) - 1, MaxWallIndex)}

\* sub-targets offered to a click: the wall meshes matter to Select and the eraser only
clickSubTargets(tool, tile) ==
    IF tool \in {"Select", "None"} THEN subTargetsAt(tile) ELSE {Undefined}

ItemLists == {<< >>, << "gloves" >>}

\* stored designs loadWorkspace can hand to setGrid: grids the editor saved earlier.
\* Two adjacent waiting rooms (anchors (0,0) and (5,0)), a wall on the corner (0,0).
TwoRooms ==
    LET g1 == clickUpdater(createInitialGrid, "WaitingRoom", 2, 2, Undefined, StyledBrush(1))
        g2 == clickUpdater(g1, "WaitingRoom", 7, 2, Undefined, PlainBrush(0))
    IN  clickUpdater(g2, "StraightWall", 0, 0, Undefined, PlainBrush(0))

\* A waiting room (anchor (0,0)) with two walls on its corner (0,0), and below it
\* a one-cell operatory at (0,5) that carries a wall
WalledRoom ==
    LET g1 == clickUpdater(createInitialGrid, "WaitingRoom", 2, 2, Undefined, PlainBrush(0))
        g2 == clickUpdater(g1, "StraightWall", 0, 0, Undefined, PlainBrush(0))
        g3 == clickUpdater(g2, "Door", 0, 0, Undefined, StyledBrush(3))
        g4 == clickUpdater(g3, "OperatorySuite", 0, 5, Undefined, StyledBrush(0))
    IN  clickUpdater(g4, "StraightWall", 0, 5, Undefined, PlainBrush(1))

\* A one-cell operatory with an inventory at (0,0)
Office ==
    clickUpdater(createInitialGrid, "OperatorySuite", 0, 0, Undefined, StyledBrush(0))

Op(op, tool, x, y, fx, fy, sub, arg) ==
    [op |-> op, tool |-> tool, x |-> x, y |-> y, fx |-> fx, fy |-> fy,
     sub |-> sub, arg |-> arg]

\* the history variables' step for a handler that records an edit
\* (they are tracked when Init starts the timeline, cursor > 0)
RecordEdit(newGrid) ==
    IF cursor = 0
    THEN UNCHANGED <<timeline, cursor, discarded>>
    ELSE /\ timeline' = Append(SubSeq(timeline, 1, cursor), newGrid)
         /\ cursor' = cursor + 1
         /\ discarded' = Len(future)

----------------------------------------------------------------------------
(* The objects behind the grids.  A grid of the source is an array of row    *)
(* arrays of tile records, and a tile record refers to its placedWalls       *)
(* array.  mem.heap is the sequence of these objects, an address is an index *)
(* into it: a grid object maps y to the address of a row, a row object maps  *)
(* x to the address of a tile record, a tile record is [t, w] with the       *)
(* tile's fields t and the address w of its wall list, a wall list is the    *)
(* sequence of its walls.  mem.grid, mem.history and mem.future are the      *)
(* references held by the three states of App.  Objects no state refers to   *)
(* stay in the heap.                                                         *)

\* the value of a specification that does not follow the objects
NoMem == [heap |-> << >>, grid |-> 0, history |-> << >>, future |-> << >>, edits |-> 0]

NumCells == GRID_SIZE * GRID_SIZE

\* the objects of a grid that was parsed from the stored JSON: nothing is shared
loadedMem(g) ==
    LET tiles == [i \in 1 .. NumCells |->
                    [t |-> [g[(i - 1) \div GRID_SIZE][(i - 1) % GRID_SIZE]
                               EXCEPT !.placedWalls = << >>],
                     w |-> NumCells + i]]
        lists == [i \in 1 .. NumCells |->
                    g[(i - 1) \div GRID_SIZE][(i - 1) % GRID_SIZE].placedWalls]
        rows == [j \in 1 .. GRID_SIZE |->
                    [x \in Coords |-> (j - 1) * GRID_SIZE + x + 1]]
        top == << [y \in Coords |-> 2 * NumCells + y + 1] >>
    IN  [heap |-> tiles \o lists \o rows \o top,
         grid |-> 2 * NumCells + GRID_SIZE + 1,
         history |-> << >>, future |-> << >>, edits |-> 0]

\* the tile record at address a, with its wall list
tileValue(h, a) == [h[a].t EXCEPT !.placedWalls = h[h[a].w]]

\* the content of the grid object at address g
deref(h, g) == [y \in Coords |-> [x \in Coords |-> tileValue(h, h[h[g][y]][x])]]

\* a new object
alloc(h, obj) == [heap |-> Append(h, obj), at |-> Len(h) + 1]

\* prevGrid.map(row => [...row]): a new grid object of new row objects, the tiles shared
copyRows(h, g) ==
    [heap |-> h \o [j \in 1 .. GRID_SIZE |-> h[h[g][j - 1]]]
               \o << [y \in Coords |-> Len(h) + y + 1] >>,
     at |-> Len(h) + GRID_SIZE + 1]

\* mutation of copyWalls: the handler works on the tile's own list
copyWalls_shared(h, a) == [heap |-> h, at |-> a]

\* [...tile.placedWalls]: a new list with the same walls
copyWalls(h, a) == [heap |-> Append(h, h[a]), at |-> Len(h) + 1]

\* the address in newGrid[y][x]
tileAt(h, g, x, y) == h[h[g][y]][x]

\* newGrid[y][x] = tile: a write into the row object of newGrid
setTile(h, g, x, y, a) == [h EXCEPT ![h[g][y]][x] = a]

\* newGrid[y][x] = { ...tile, placedWalls: walls } for the list at address w
setTileWalls(h, g, x, y, w) ==
    LET t == alloc(h, [t |-> h[tileAt(h, g, x, y)].t, w |-> w])
    IN  setTile(t.heap, g, x, y, t.at)

\* handleTileClick, STRUCTURE TOOL, on the objects (an updater that returns prevGrid
\* leaves the objects it made unreferenced: they are dropped here)
structureRefs(h, g, tool, x, y, brush) ==
    LET c == copyRows(h, g)
        currentTile == tileValue(c.heap, tileAt(c.heap, c.at, x, y))
        w == copyWalls(c.heap, c.heap[tileAt(c.heap, c.at, x, y)].w)
        rotationToPlace == brush.rotation
        vx == IF IsDefined(currentTile.variantX) THEN Val(currentTile.variantX) ELSE 0
        vy == IF IsDefined(currentTile.variantY) THEN Val(currentTile.variantY) ELSE 0
        existingIdx == findIndex(w.heap[w.at], rotationToPlace)
        newWallData == [type |-> tool, rotation |-> rotationToPlace,
                        customColor |-> brush.customColor]
        written == [w.heap EXCEPT ![w.at] =
                        IF existingIdx > 0
                        THEN [@ EXCEPT ![existingIdx] = newWallData]
                        ELSE Append(@, newWallData)]
    IN  IF isLargeRoomType(currentTile.roomType) /\ ~isPerimeter(rotationToPlace, vx, vy)
        THEN [heap |-> h, at |-> g]
        ELSE [heap |-> setTileWalls(written, c.at, x, y, w.at), at |-> c.at]

\* handleTileClick, ERASE TOOL with a wall of the tile as its sub-target
eraseWallRefs(h, g, x, y, subTarget) ==
    LET c == copyRows(h, g)
        w == copyWalls(c.heap, c.heap[tileAt(c.heap, c.at, x, y)].w)
        spliced == [w.heap EXCEPT ![w.at] = splice(@, Val(subTarget) + 1)]
    IN  [heap |-> setTileWalls(spliced, c.at, x, y, w.at), at |-> c.at]

\* the branches that write tile records and no wall list (rooms placed, erased, moved,
\* edited): new rows and new tile records that refer to the wall lists of their cells
roomRefs(h, g, newGrid) ==
    IF newGrid = deref(h, g)
    THEN [heap |-> h, at |-> g]
    ELSE [heap |-> h \o [i \in 1 .. NumCells |->
                          [t |-> [newGrid[(i - 1) \div GRID_SIZE][(i - 1) % GRID_SIZE]
                                     EXCEPT !.placedWalls = << >>],
                           w |-> h[tileAt(h, g, (i - 1) % GRID_SIZE,
                                          (i - 1) \div GRID_SIZE)].w]]
                     \o [j \in 1 .. GRID_SIZE |->
                          [x \in Coords |-> Len(h) + (j - 1) * GRID_SIZE + x + 1]]
                     \o << [y \in Coords |-> Len(h) + NumCells + y + 1] >>,
          at |-> Len(h) + NumCells + GRID_SIZE + 1]

\* the setGrid updater of handleTileClick on the objects
clickRefs(h, g, tool, x, y, subTarget, brush) ==
    IF isStructureType(tool)
    THEN structureRefs(h, g, tool, x, y, brush)
    ELSE IF tool = "None" /\ hasWallAt(deref(h, g)[y][x], subTarget)
    THEN eraseWallRefs(h, g, x, y, subTarget)
    ELSE roomRefs(h, g, clickUpdater(deref(h, g), tool, x, y, subTarget, brush))

\* handleTileMove, WALL MOVE, on the objects
wallMoveRefs(h, g, fx, fy, tx, ty, subTarget) ==
    LET c == copyRows(h, g)
        sTile == tileValue(c.heap, tileAt(c.heap, c.at, fx, fy))
        wallToMove == sTile.placedWalls[Val(subTarget) + 1]
        ws == copyWalls(c.heap, c.heap[tileAt(c.heap, c.at, fx, fy)].w)
        spliced == [ws.heap EXCEPT ![ws.at] = splice(@, Val(subTarget) + 1)]
        h1 == setTileWalls(spliced, c.at, fx, fy, ws.at)
        wt == copyWalls(h1, h1[tileAt(h1, c.at, tx, ty)].w)
        pushed == [wt.heap EXCEPT ![wt.at] = Append(@, wallToMove)]
    IN  IF ~hasWallAt(sTile, subTarget)
        THEN [heap |-> h, at |-> g]
        ELSE [heap |-> setTileWalls(pushed, c.at, tx, ty, wt.at), at |-> c.at]

\* the setGrid updater of handleTileMove on the objects
moveRefs(h, g, fx, fy, tx, ty, subTarget) ==
    IF IsDefined(subTarget)
    THEN wallMoveRefs(h, g, fx, fy, tx, ty, subTarget)
    ELSE roomRefs(h, g, roomMoveUpdater(deref(h, g), fx, fy, tx, ty))

\* handleInspectorUpdate, wall branch, on the objects
wallInspectorRefs(h, g, pos, subTarget, updates) ==
    LET c == copyRows(h, g)
        tile == tileValue(c.heap, tileAt(c.heap, c.at, pos[1], pos[2]))
        w == copyWalls(c.heap, c.heap[tileAt(c.heap, c.at, pos[1], pos[2])].w)
        written == [w.heap EXCEPT ![w.at] =
                        [@ EXCEPT ![Val(subTarget) + 1] = updatedWall(@, updates)]]
    IN  IF hasWallAt(tile, subTarget)
        THEN [heap |-> setTileWalls(written, c.at, pos[1], pos[2], w.at), at |-> c.at]
        ELSE c

\* the setGrid updater of handleInspectorUpdate on the objects
inspectorRefs(h, g, pos, subTarget, updates) ==
    IF IsDefined(subTarget)
    THEN wallInspectorRefs(h, g, pos, subTarget, updates)
    ELSE roomRefs(h, g, updateSelectedTileUpdater(deref(h, g), pos, updates))

\* the state of the objects after pushHistory and setGrid(r): the snapshot pushed is
\* the grid object itself
editedMem(m, r) ==
    [heap |-> r.heap, grid |-> r.at, history |-> Append(m.history, m.grid),
     future |-> << >>, edits |-> m.edits + 1]

\* undo and redo on the references
undoMem(m) ==
    IF Len(m.history) = 0 THEN m
    ELSE [m EXCEPT !.grid = m.history[Len(m.history)],
                   !.history = SubSeq(m.history, 1, Len(m.history) - 1),
                   !.future = << m.grid >> \o m.future]
redoMem(m) ==
    IF Len(m.future) = 0 THEN m
    ELSE [m EXCEPT !.grid = m.future[1],
                   !.history = Append(m.history, m.grid),
                   !.future = SubSeq(m.future, 2, Len(m.future))]

----------------------------------------------------------------------------
(* Workspace synchronisation: colours, status line, autosave refs, remote store *)

DefaultWorldColor == "#bae6fd"
DefaultFloorColor == "#e5e7eb"
\* colours the toolbar's colour inputs can deliver (a sample)
PaletteColors == {DefaultWorldColor, "#fde68a"}

LoadingMessage == "Loading your workspace..."
LoadFailedMessage == "Failed to load workspace"
CacheMessage == "Loaded from cache"
AutosavingMessage == "Autosaving..."
AutosaveFailedMessage == "Autosave failed. Check console for details."
\* the messages that are set together with a setTimeout that clears the status line
TransientMessages ==
    {LoadFailedMessage, CacheMessage, AutosavingMessage, AutosaveFailedMessage}

\* the remote store: reachable or not, the design it holds, the request it is serving,
\* whether it has refused a request, and the number of its outages so far
idleStore(design) ==
    [up |-> TRUE, design |-> design, request |-> Undefined, calls |-> 0, refused |-> FALSE,
     outages |-> 0]

\* the autosave refs as useRef creates them
mountedRefs ==
    [skipNextAutosave |-> TRUE, autosaveTimer |-> Undefined, autosaveInFlight |-> FALSE,
     lastSavedKey |-> Undefined, pendingAutosave |-> Undefined]

\* the payload of the autosave effect; `inventory` is aggregated from the grid and
\* carries nothing the grid does not.  key = JSON.stringify(payload): two payloads
\* of the model have the same string exactly when they are equal (an absent and an
\* undefined field are both the empty sequence here), so the payload stands for its key
autosavePayload(u, g, wc, fc) ==
    [userId |-> u, grid |-> g, worldColor |-> wc, floorColor |-> fc]

\* fetchWorkspace: the store's answer {data, error} becomes the stored workspace or null
fetchWorkspace(response) ==
    IF response.error THEN Undefined
    ELSE IF ~IsDefined(response.design) THEN Undefined
    ELSE Some([grid |-> Val(response.design).layout_json,
               worldColor |-> Val(response.design).world_color,
               floorColor |-> Val(response.design).floor_color])

\* stored?.grid ?? createInitialGrid(), stored?.worldColor ?? '#bae6fd', ...
loadedGrid(stored, fresh) ==
    IF IsDefined(stored) /\ IsDefined(Val(stored).grid) THEN Val(Val(stored).grid) ELSE fresh
loadedColor(stored, field, default) ==
    IF IsDefined(stored) /\ IsDefined(Val(stored)[field]) THEN Val(Val(stored)[field])
    ELSE default

\* the order of the payloads once a holder has given its payload up
without(order, holder) == SelectSeq(order, LAMBDA h : h # holder)

\* the order of the payloads once the payload of `from` has passed to `to`
moved(order, from, to) ==
    [i \in DOMAIN without(order, to) |->
        IF without(order, to)[i] = from THEN to ELSE without(order, to)[i]]

\* the order of the payloads once runAutosave's finally block has run: the queued
\* payload is sent or dropped
settledOrder(order, sent) ==
    IF sent THEN moved(order, "pending", "request") ELSE without(order, "pending")

\* mutation of runAutosave: the call starts its request also while one is in flight
runAutosave_unserialised(refs, st, payload) ==
    << [refs EXCEPT !.autosaveInFlight = TRUE],
       [st EXCEPT !.request = Some(payload), !.calls = @ + 1] >>

\* runAutosave(payload, key): the refs and the store once the call has started the
\* request or queued the payload
runAutosave(refs, st, payload) ==
    IF refs.autosaveInFlight
    THEN << [refs EXCEPT !.pendingAutosave = Some(payload)], st >>
    ELSE << [refs EXCEPT !.autosaveInFlight = TRUE],
            [st EXCEPT !.request = Some(payload), !.calls = @ + 1] >>

\* runAutosave, after saveWorkspace resolved: lastSavedKeyRef.current = key
saveSucceededRefs(refs, payload) == [refs EXCEPT !.lastSavedKey = Some(payload)]

\* mutation of saveFailedRefs: the payload that failed is recorded as saved
saveFailedRefs_recorded(refs, payload) == [refs EXCEPT !.lastSavedKey = Some(payload)]

\* runAutosave, catch block: no ref is written
saveFailedRefs(refs, payload) == refs

\* runAutosave, finally block: the flag is cleared and a queued payload that differs
\* from the saved one is sent at once
autosaveSettled(refs, st) ==
    LET cleared == [refs EXCEPT !.autosaveInFlight = FALSE, !.pendingAutosave = Undefined]
        idle == [st EXCEPT !.request = Undefined, !.calls = @ - 1]
    IN  IF IsDefined(refs.pendingAutosave) /\ refs.pendingAutosave # refs.lastSavedKey
        THEN runAutosave(cleared, idle, Val(refs.pendingAutosave))
        ELSE << cleared, idle >>

----------------------------------------------------------------------------
(* IsoMap: the pointer protocol *)

NoPointerEvent ==
    [ev |-> "none", x |-> -1, y |-> -1, sub |-> Undefined, tool |-> "", readOnly |-> FALSE,
     source |-> Undefined, pressed |-> Undefined, call |-> << >>]

\* the pointer went down on the canvas outside the grid
Outside == << -1, -1 >>

\* mutation of pointerUpCall: a drag is resolved with the sub-target under the pointer
\* at pointerUp instead of the latched one
pointerUpCall_unlatched(ro, tool, ds, x, y, sub) ==
    IF ro THEN << >>
    ELSE IF tool = "Select" /\ IsDefined(ds)
    THEN IF Val(ds).x = x /\ Val(ds).y = y
         THEN << "click", x, y, sub >>
         ELSE << "move", Val(ds).x, Val(ds).y, x, y, sub >>
    ELSE IF tool # "Select" THEN << "click", x, y, sub >>
    ELSE << >>

\* handlePointerUp: the call to the engine a pointerUp on (x, y) resolves to
pointerUpCall(ro, tool, ds, x, y, sub) ==
    IF ro THEN << >>
    ELSE IF tool = "Select" /\ IsDefined(ds)
    THEN IF Val(ds).x = x /\ Val(ds).y = y
         THEN << "click", x, y, sub >>
         ELSE << "move", Val(ds).x, Val(ds).y, x, y, Val(ds).subTarget >>
    ELSE IF tool # "Select" THEN << "click", x, y, sub >>
    ELSE << >>

----------------------------------------------------------------------------
(* Actions *)

\* the state of App and IsoMap once the workspace is loaded:
\* setGrid(stored?.grid ?? createInitialGrid())
InitApp(storedGrid, tracked) ==
    /\ grid = storedGrid
    /\ history = << >>
    /\ future = << >>
    /\ activeTool = "Select"
    /\ selectedTilePos = Undefined
    /\ selectedSubTarget = Undefined
    /\ isEditMode = FALSE
    /\ user = Some("u1")
    /\ workspaceLoading = FALSE
    /\ loadedUserIdRef = Some("u1")
    /\ loadsInFlight = 0
    /\ editingInventoryTile = Undefined
    /\ lastOp = Op("init", "Select", -1, -1, -1, -1, Undefined, Undefined)
    /\ timeline = IF tracked THEN << storedGrid >> ELSE << >>
    /\ cursor = IF tracked THEN 1 ELSE 0
    /\ discarded = 0
    /\ worldColor = DefaultWorldColor
    /\ floorColor = DefaultFloorColor
    /\ statusMessage = Undefined
    /\ dragStart = Undefined
    /\ hoveredTile = Undefined
    /\ gesture = Undefined
    /\ pointerLog = NoPointerEvent

\* the loaded state of a specification that follows neither the autosave effect nor
\* the objects of the heap: the refs keep the values they are created with
InitWith(storedGrid, tracked) ==
    /\ InitApp(storedGrid, tracked)
    /\ autosave = mountedRefs
    /\ effect = [deps |-> Undefined, cleanup |-> FALSE]
    /\ store = idleStore(Undefined)
    /\ payloadOrder = << >>
    /\ mem = NoMem

\* isReady = !!user && !workspaceLoading && !loadingSession (the session check is over)
isReady == IsDefined(user) /\ ~workspaceLoading

\* TopToolbar onToggleEditMode (the toolbar is rendered when isReady)
ToggleEditMode ==
    /\ isReady
    /\ isEditMode' = ~isEditMode
    /\ IF isEditMode
       THEN /\ activeTool' = "Select"
            /\ selectedTilePos' = Undefined
            /\ selectedSubTarget' = Undefined
       ELSE UNCHANGED <<activeTool, selectedTilePos, selectedSubTarget>>
    /\ lastOp' = Op("ui", "", -1, -1, -1, -1, Undefined, Undefined)
    /\ UNCHANGED <<grid, history, future, timeline, cursor, discarded, session, sync,
                   iso, mem>>

\* UIOverlay onSelectTool (the overlay is rendered in edit mode only)
SelectTool(t) ==
    /\ isReady
    /\ isEditMode
    /\ activeTool' = t
    /\ selectedTilePos' = Undefined
    /\ selectedSubTarget' = Undefined
    /\ lastOp' = Op("ui", "", -1, -1, -1, -1, Undefined, Undefined)
    /\ UNCHANGED <<grid, history, future, isEditMode, timeline, cursor, discarded,
                   session, sync, iso, mem>>

\* a resolver that selects the clicked cell itself
selectionAnchor_clicked(g, x, y) == << x, y >>

\* the position handleTileClick selects for a click on (x, y) without a wall sub-target
selectionAnchor(g, x, y) ==
    LET tile == g[y][x]
    IN  IF isLargeRoomType(tile.roomType)
        THEN << Max(0, anchorX(tile, x)), Max(0, anchorY(tile, y)) >>
        ELSE << x, y >>

\* handleTileClick(x, y, subTarget), reading activeTool and the brush
handleTileClick(x, y, subTarget, brush) ==
    /\ isReady
    /\ isEditMode
    /\ IF activeTool = "Select"
       THEN /\ IF IsDefined(subTarget)
               THEN /\ selectedTilePos' = Some(<< x, y >>)
                    /\ selectedSubTarget' = subTarget
               ELSE /\ selectedTilePos' = Some(selectionAnchor(grid, x, y))
                    /\ selectedSubTarget' = Undefined
            /\ lastOp' = Op("ui", "", -1, -1, -1, -1, Undefined, Undefined)
            /\ UNCHANGED <<grid, history, future, timeline, cursor, discarded>>
       ELSE /\ Len(history) < MaxHistory
            /\ history' = pushedHistory(history, grid)
            /\ future' = pushedFuture(future)
            /\ grid' = clickUpdater(grid, activeTool, x, y, subTarget, brush)
            /\ lastOp' = Op("click", activeTool, x, y, -1, -1, subTarget, brush)
            /\ RecordEdit(grid')
            /\ UNCHANGED <<selectedTilePos, selectedSubTarget>>
    /\ UNCHANGED <<activeTool, isEditMode, session, sync>>

\* handleTileClick as an operation of the engine: the state of IsoMap and the objects
\* of the heap are not followed
HandleTileClick(x, y, subTarget, brush) ==
    /\ handleTileClick(x, y, subTarget, brush)
    /\ UNCHANGED <<iso, mem>>

\* handleTileMove(from, to, fromSubTarget); IsoMap calls it under the Select tool only
handleTileMove(fx, fy, tx, ty, subTarget) ==
    /\ isReady
    /\ isEditMode
    /\ activeTool = "Select"
    /\ IF moveAccepted(grid, fx, fy, tx, ty, subTarget)
       THEN /\ Len(history) < MaxHistory
            /\ history' = pushedHistory(history, grid)
            /\ future' = pushedFuture(future)
            /\ grid' = movedGrid(grid, fx, fy, tx, ty, subTarget)
            /\ IF IsDefined(subTarget)
               THEN /\ selectedTilePos' = Some(<< tx, ty >>)
                    /\ selectedSubTarget' = Some(Len(grid[ty][tx].placedWalls))
               ELSE /\ selectedTilePos' =
                        IF isLargeRoomType(grid[fy][fx].roomType)
                        THEN Some(<< targetAnchorX(grid, fx, fy, tx),
                                     targetAnchorY(grid, fx, fy, ty) >>)
                        ELSE Some(<< tx, ty >>)
                    /\ selectedSubTarget' = Undefined
            /\ lastOp' = Op("move", activeTool, tx, ty, fx, fy, subTarget, Undefined)
            /\ RecordEdit(grid')
            /\ UNCHANGED <<activeTool, isEditMode, session, sync>>
       ELSE UNCHANGED appVars

\* handleTileMove as an operation of the engine
HandleTileMove(fx, fy, tx, ty, subTarget) ==
    /\ handleTileMove(fx, fy, tx, ty, subTarget)
    /\ UNCHANGED <<iso, mem>>

\* UIOverlay: the updates the inspector currently offers (none without a selection,
\* none for an empty selected tile, none outside edit mode)
offeredUpdates ==
    IF isReady /\ isEditMode /\ IsDefined(selectedTilePos)
    THEN LET data == selectedTileData(grid, Val(selectedTilePos), selectedSubTarget)
         IN  IF data.roomType # "None" THEN inspectorUpdates(data) ELSE {}
    ELSE {}

\* handleInspectorUpdate(updates), sent by the inspector shown for the selection
handleInspectorUpdate(updates) ==
    /\ updates \in offeredUpdates
    /\ IsDefined(selectedTilePos)
    /\ Len(history) < MaxHistory
    /\ history' = pushedHistory(history, grid)
    /\ future' = pushedFuture(future)
    /\ grid' = inspectorUpdater(grid, Val(selectedTilePos), selectedSubTarget, updates)
    /\ lastOp' = Op("inspector", activeTool, Val(selectedTilePos)[1], Val(selectedTilePos)[2],
                    -1, -1, selectedSubTarget, updates)
    /\ RecordEdit(grid')
    /\ UNCHANGED <<activeTool, selectedTilePos, selectedSubTarget, isEditMode, session, sync>>

\* handleInspectorUpdate as an operation of the engine
HandleInspectorUpdate(updates) ==
    /\ handleInspectorUpdate(updates)
    /\ UNCHANGED <<iso, mem>>

\* handleInventoryClick(x, y) on the tile's inventory icon, handleSaveInventory(items) for
\* one change of the item list, and the dialog closed again
HandleSaveInventory(x, y, items) ==
    /\ editingInventoryTile = Undefined
    /\ showInventory(grid[y][x])
    /\ Len(history) < MaxHistory
    /\ history' = pushedHistory(history, grid)
    /\ future' = pushedFuture(future)
    /\ grid' = saveInventoryUpdater(grid, x, y, items)
    /\ lastOp' = Op("saveInventory", activeTool, x, y, -1, -1, Undefined, items)
    /\ RecordEdit(grid')
    /\ UNCHANGED <<activeTool, selectedTilePos, selectedSubTarget, isEditMode, session, sync,
                   iso, mem>>

\* undo (toolbar button or Ctrl+Z, both in edit mode only)
undo ==
    /\ isEditMode
    /\ grid' = undoResult(grid, history, future)[1]
    /\ history' = undoResult(grid, history, future)[2]
    /\ future' = undoResult(grid, history, future)[3]
    /\ lastOp' = IF Len(history) = 0 THEN lastOp
                 ELSE Op("undo", "", -1, -1, -1, -1, Undefined, Undefined)
    /\ cursor' = IF cursor > 1 THEN cursor - 1 ELSE cursor
    /\ UNCHANGED <<activeTool, selectedTilePos, selectedSubTarget, isEditMode, timeline,
                   discarded, session, sync>>

\* undo as an operation of the engine
Undo ==
    /\ undo
    /\ UNCHANGED <<iso, mem>>

\* redo (toolbar button or Ctrl+Y, both in edit mode only)
redo ==
    /\ isEditMode
    /\ grid' = redoResult(grid, history, future)[1]
    /\ history' = redoResult(grid, history, future)[2]
    /\ future' = redoResult(grid, history, future)[3]
    /\ lastOp' = IF Len(future) = 0 THEN lastOp
                 ELSE Op("redo", "", -1, -1, -1, -1, Undefined, Undefined)
    /\ cursor' = IF cursor < Len(timeline) THEN cursor + 1 ELSE cursor
    /\ UNCHANGED <<activeTool, selectedTilePos, selectedSubTarget, isEditMode, timeline,
                   discarded, session, sync>>

\* redo as an operation of the engine
Redo ==
    /\ redo
    /\ UNCHANGED <<iso, mem>>

\* handleInventoryClick(x, y): the inventory icon of a tile opens the dialog
HandleInventoryClick(x, y) ==
    /\ showInventory(grid[y][x])
    /\ editingInventoryTile' = Some(<< x, y >>)
    /\ lastOp' = Op("ui", "", -1, -1, -1, -1, Undefined, Undefined)
    /\ UNCHANGED <<grid, history, future, activeTool, selectedTilePos, selectedSubTarget,
                   isEditMode, user, workspaceLoading, loader, timeline, cursor, discarded,
                   sync, iso, mem>>

\* handleSaveInventory(items), called by the open dialog on every change of its list;
\* the dialog is rendered whenever editingInventoryTile is set
SaveInventoryItems(items) ==
    /\ IsDefined(editingInventoryTile)
    /\ Len(history) < MaxHistory
    /\ history' = pushedHistory(history, grid)
    /\ future' = pushedFuture(future)
    /\ grid' = saveInventoryUpdater(grid, Val(editingInventoryTile)[1],
                                    Val(editingInventoryTile)[2], items)
    /\ lastOp' = Op("saveInventory", activeTool, Val(editingInventoryTile)[1],
                    Val(editingInventoryTile)[2], -1, -1, Undefined, items)
    /\ RecordEdit(grid')
    /\ UNCHANGED <<activeTool, selectedTilePos, selectedSubTarget, isEditMode, session, sync,
                   iso, mem>>

\* InventoryModal onClose
CloseInventory ==
    /\ IsDefined(editingInventoryTile)
    /\ editingInventoryTile' = Undefined
    /\ lastOp' = Op("ui", "", -1, -1, -1, -1, Undefined, Undefined)
    /\ UNCHANGED <<grid, history, future, activeTool, selectedTilePos, selectedSubTarget,
                   isEditMode, user, workspaceLoading, loader, timeline, cursor, discarded,
                   sync, iso, mem>>

\* the session ends (handleSignOut, or the auth listener delivers no session):
\* setUser(null), then the effect on [user] resets the workspace
SignOut ==
    /\ IsDefined(user)
    /\ user' = Undefined
    /\ grid' = createInitialGrid
    /\ isEditMode' = FALSE
    /\ worldColor' = DefaultWorldColor
    /\ floorColor' = DefaultFloorColor
    /\ statusMessage' = Undefined
    /\ history' = << >>
    /\ future' = << >>
    /\ autosave' = [autosave EXCEPT !.skipNextAutosave = TRUE, !.lastSavedKey = Undefined,
                                    !.pendingAutosave = Undefined]
    /\ loadedUserIdRef' = Undefined
    /\ payloadOrder' = without(payloadOrder, "pending")
    /\ lastOp' = Op("signOut", "", -1, -1, -1, -1, Undefined, Undefined)
    /\ UNCHANGED <<activeTool, selectedTilePos, selectedSubTarget, workspaceLoading,
                   loadsInFlight, editingInventoryTile, timeline, cursor, discarded,
                   effect, store,
                   iso, mem>>

\* whether the effect on [user] starts a load for the signed-in user: it calls
\* loadWorkspace unless the workspace of that user is loaded, and loadWorkspace returns
\* at once while a load is in flight
loadWorkspaceRuns_reloading(isLoading, loadedUserId, userId) ==
    ~isLoading

loadWorkspaceRuns(isLoading, loadedUserId, userId) ==
    /\ ~isLoading
    /\ loadedUserId # Some(userId)

\* loadWorkspace(userId) on its remote path, from the guards to the await
startRemoteLoad(userId) ==
    IF loadWorkspaceRuns(workspaceLoading, loadedUserIdRef, userId)
    THEN /\ workspaceLoading' = TRUE
         /\ statusMessage' = Some(LoadingMessage)
         /\ loadsInFlight' = loadsInFlight + 1
    ELSE UNCHANGED <<workspaceLoading, statusMessage, loadsInFlight>>

\* loadWorkspace(userId) when it finds the user's cached workspace
\* (a cache entry without colours: the colours stay)
loadFromCache(userId, cachedGrid) ==
    /\ loadWorkspaceRuns(workspaceLoading, loadedUserIdRef, userId)
    /\ grid' = cachedGrid
    /\ statusMessage' = Some(CacheMessage)
    /\ autosave' = [autosave EXCEPT !.skipNextAutosave = TRUE]
    /\ loadedUserIdRef' = Some(userId)

\* a session begins: setUser(user), then the effect on [user] calls loadWorkspace
\* without a cached workspace
SignIn ==
    /\ ~IsDefined(user)
    /\ loadsInFlight < MaxLoads
    /\ user' = Some("u1")
    /\ startRemoteLoad("u1")
    /\ lastOp' = Op("signIn", "", -1, -1, -1, -1, Undefined, Undefined)
    /\ UNCHANGED <<grid, history, future, activeTool, selectedTilePos, selectedSubTarget,
                   isEditMode, loadedUserIdRef, editingInventoryTile, timeline, cursor,
                   discarded, worldColor, floorColor, autosave, effect, store, payloadOrder, iso, mem>>

\* a session begins and loadWorkspace finds the user's cached workspace
SignInFromCache(cachedGrid) ==
    /\ ~IsDefined(user)
    /\ user' = Some("u1")
    /\ loadFromCache("u1", cachedGrid)
    /\ lastOp' = Op("load", "", -1, -1, -1, -1, Undefined, Undefined)
    /\ UNCHANGED <<history, future, activeTool, selectedTilePos, selectedSubTarget,
                   isEditMode, workspaceLoading, loadsInFlight, editingInventoryTile,
                   timeline, cursor, discarded, worldColor, floorColor, effect, store, payloadOrder,
                   iso, mem>>

\* the auth listener delivers a session of the signed-in user again (a token refresh):
\* setUser(session.user) with a new object, so the effect on [user] runs again
SessionRefresh ==
    /\ IsDefined(user)
    /\ loadsInFlight < MaxLoads
    /\ user' = Some(Val(user))
    /\ startRemoteLoad(Val(user))
    /\ lastOp' = Op("refresh", "", -1, -1, -1, -1, Undefined, Undefined)
    /\ UNCHANGED <<grid, history, future, activeTool, selectedTilePos, selectedSubTarget,
                   isEditMode, loadedUserIdRef, editingInventoryTile, timeline, cursor,
                   discarded, worldColor, floorColor, autosave, effect, store, payloadOrder, iso, mem>>

\* a session refresh whose loadWorkspace finds the user's cached workspace
SessionRefreshFromCache(cachedGrid) ==
    /\ IsDefined(user)
    /\ user' = Some(Val(user))
    /\ loadFromCache(Val(user), cachedGrid)
    /\ lastOp' = Op("load", "", -1, -1, -1, -1, Undefined, Undefined)
    /\ UNCHANGED <<history, future, activeTool, selectedTilePos, selectedSubTarget,
                   isEditMode, workspaceLoading, loadsInFlight, editingInventoryTile,
                   timeline, cursor, discarded, worldColor, floorColor, effect, store, payloadOrder,
                   iso, mem>>

\* loadWorkspace after the store answered: stored = await fetchWorkspace(userId), then
\* setGrid(stored?.grid ?? createInitialGrid()) and the colours likewise
LoadResolves(response) ==
    /\ loadsInFlight > 0
    /\ loadsInFlight' = loadsInFlight - 1
    /\ loadedUserIdRef' = Some("u1")
    /\ grid' = loadedGrid(fetchWorkspace(response), createInitialGrid)
    /\ worldColor' = loadedColor(fetchWorkspace(response), "worldColor", DefaultWorldColor)
    /\ floorColor' = loadedColor(fetchWorkspace(response), "floorColor", DefaultFloorColor)
    /\ autosave' = [autosave EXCEPT !.skipNextAutosave = TRUE]
    /\ statusMessage' = Undefined
    /\ workspaceLoading' = FALSE
    /\ lastOp' = Op(IF response.error THEN "loadError" ELSE "load",
                    "", -1, -1, -1, -1, Undefined, Undefined)
    /\ UNCHANGED <<history, future, activeTool, selectedTilePos, selectedSubTarget,
                   isEditMode, user, editingInventoryTile, timeline, cursor, discarded,
                   effect, store, payloadOrder, iso, mem>>

\* the store answered with the user's design (a design saved without colours)
LoadCompletes(storedGrid) ==
    LoadResolves([error |-> FALSE,
                  design |-> Some([layout_json |-> Some(storedGrid),
                                   world_color |-> Undefined, floor_color |-> Undefined])])

\* the store answered with an error: { data: null, error }
LoadStoreError ==
    LoadResolves([error |-> TRUE, design |-> Undefined])

\* loadWorkspace after fetchWorkspace threw (the request itself was rejected):
\* the grid stays, the load is over
LoadFails ==
    /\ loadsInFlight > 0
    /\ loadsInFlight' = loadsInFlight - 1
    /\ workspaceLoading' = FALSE
    /\ statusMessage' = Some(LoadFailedMessage)
    /\ lastOp' = Op("loadFailed", "", -1, -1, -1, -1, Undefined, Undefined)
    /\ UNCHANGED <<grid, history, future, activeTool, selectedTilePos, selectedSubTarget,
                   isEditMode, user, loadedUserIdRef, editingInventoryTile, timeline,
                   cursor, discarded, worldColor, floorColor, autosave, effect, store, payloadOrder,
                   iso, mem>>

\* setTimeout(() => setStatusMessage(null), ...) of a transient message
StatusExpires ==
    /\ IsDefined(statusMessage)
    /\ Val(statusMessage) \in TransientMessages
    /\ statusMessage' = Undefined
    /\ UNCHANGED <<grid, history, future, activeTool, selectedTilePos, selectedSubTarget,
                   isEditMode, session, lastOp, timeline, cursor, discarded,
                   worldColor, floorColor, autosave, effect, store, payloadOrder, iso, mem>>

\* TopToolbar onWorldColorChange = setWorldColor (the toolbar is rendered when isReady)
SetWorldColor(color) ==
    /\ isReady
    /\ worldColor' = color
    /\ lastOp' = Op("ui", "", -1, -1, -1, -1, Undefined, Undefined)
    /\ UNCHANGED <<grid, history, future, activeTool, selectedTilePos, selectedSubTarget,
                   isEditMode, session, timeline, cursor, discarded,
                   floorColor, statusMessage, autosave, effect, store, payloadOrder, iso, mem>>

\* the dependencies of the autosave effect
effectDeps == << user, isReady, grid, worldColor, floorColor >>

\* the autosave effect, run by React after a render that changed its dependencies:
\* first the cleanup its last run left (clearTimeout), then the effect itself
AutosaveEffect ==
    /\ effect.deps # Some(effectDeps)
    /\ LET cleaned == IF effect.cleanup
                      THEN [autosave EXCEPT !.autosaveTimer = Undefined]
                      ELSE autosave
           payload == autosavePayload(Val(user), grid, worldColor, floorColor)
       IN  IF ~IsDefined(user) \/ ~isReady
           THEN /\ autosave' = cleaned
                /\ effect' = [deps |-> Some(effectDeps), cleanup |-> FALSE]
           ELSE IF cleaned.skipNextAutosave
           THEN /\ autosave' = [cleaned EXCEPT !.skipNextAutosave = FALSE,
                                               !.lastSavedKey = Some(payload)]
                /\ effect' = [deps |-> Some(effectDeps), cleanup |-> FALSE]
           ELSE IF Some(payload) = cleaned.lastSavedKey
           THEN /\ autosave' = cleaned
                /\ effect' = [deps |-> Some(effectDeps), cleanup |-> FALSE]
           ELSE /\ autosave' = [cleaned EXCEPT !.autosaveTimer = Some(payload)]
                /\ effect' = [deps |-> Some(effectDeps), cleanup |-> TRUE]
    /\ payloadOrder' =
           LET cleared == IF effect.cleanup THEN without(payloadOrder, "timer")
                          ELSE payloadOrder
           IN  IF IsDefined(autosave'.autosaveTimer) THEN Append(cleared, "timer")
               ELSE cleared
    /\ lastOp' = Op("ui", "", -1, -1, -1, -1, Undefined, Undefined)
    /\ UNCHANGED <<grid, history, future, activeTool, selectedTilePos, selectedSubTarget,
                   isEditMode, session, timeline, cursor, discarded,
                   worldColor, floorColor, statusMessage, store, iso, mem>>

\* the debounce timer of the effect fires: setStatusMessage('Autosaving...') and
\* runAutosave(payload, key)
AutosaveTimerFires ==
    /\ IsDefined(autosave.autosaveTimer)
    /\ statusMessage' = Some(AutosavingMessage)
    /\ autosave' = runAutosave([autosave EXCEPT !.autosaveTimer = Undefined], store,
                               Val(autosave.autosaveTimer))[1]
    /\ store' = runAutosave([autosave EXCEPT !.autosaveTimer = Undefined], store,
                            Val(autosave.autosaveTimer))[2]
    /\ payloadOrder' = moved(payloadOrder, "timer",
                             IF autosave.autosaveInFlight THEN "pending" ELSE "request")
    /\ lastOp' = Op("ui", "", -1, -1, -1, -1, Undefined, Undefined)
    /\ UNCHANGED <<grid, history, future, activeTool, selectedTilePos, selectedSubTarget,
                   isEditMode, session, timeline, cursor, discarded,
                   worldColor, floorColor, effect, iso, mem>>

\* runAutosave resumes after saveWorkspace resolved: the store has written the payload
SaveSucceeds ==
    /\ IsDefined(store.request)
    /\ store.up
    /\ autosave' = autosaveSettled(saveSucceededRefs(autosave, Val(store.request)),
                                   [store EXCEPT !.design = store.request])[1]
    /\ store' = autosaveSettled(saveSucceededRefs(autosave, Val(store.request)),
                                [store EXCEPT !.design = store.request])[2]
    /\ payloadOrder' = settledOrder(moved(payloadOrder, "request", "store"),
                                    autosave'.autosaveInFlight)
    /\ lastOp' = Op("ui", "", -1, -1, -1, -1, Undefined, Undefined)
    /\ UNCHANGED <<grid, history, future, activeTool, selectedTilePos, selectedSubTarget,
                   isEditMode, session, timeline, cursor, discarded,
                   worldColor, floorColor, statusMessage, effect, iso, mem>>

\* runAutosave resumes after saveWorkspace threw: the store could not be written
SaveFails ==
    /\ IsDefined(store.request)
    /\ ~store.up
    /\ statusMessage' = Some(AutosaveFailedMessage)
    /\ autosave' = autosaveSettled(saveFailedRefs(autosave, Val(store.request)),
                                   [store EXCEPT !.refused = TRUE])[1]
    /\ store' = autosaveSettled(saveFailedRefs(autosave, Val(store.request)),
                                [store EXCEPT !.refused = TRUE])[2]
    /\ payloadOrder' = settledOrder(without(payloadOrder, "request"),
                                    autosave'.autosaveInFlight)
    /\ lastOp' = Op("ui", "", -1, -1, -1, -1, Undefined, Undefined)
    /\ UNCHANGED <<grid, history, future, activeTool, selectedTilePos, selectedSubTarget,
                   isEditMode, session, timeline, cursor, discarded,
                   worldColor, floorColor, effect, iso, mem>>

\* the remote store becomes unreachable (at most MaxOutages times)
StoreGoesDown ==
    /\ store.up
    /\ store.outages < MaxOutages
    /\ store' = [store EXCEPT !.up = FALSE, !.outages = @ + 1]
    /\ UNCHANGED <<grid, history, future, activeTool, selectedTilePos, selectedSubTarget,
                   isEditMode, session, lastOp, timeline, cursor, discarded,
                   worldColor, floorColor, statusMessage, autosave, effect, payloadOrder,
                   iso, mem>>

\* the remote store becomes reachable again
StoreRecovers ==
    /\ ~store.up
    /\ store' = [store EXCEPT !.up = TRUE]
    /\ UNCHANGED <<grid, history, future, activeTool, selectedTilePos, selectedSubTarget,
                   isEditMode, session, lastOp, timeline, cursor, discarded,
                   worldColor, floorColor, statusMessage, autosave, effect, payloadOrder,
                   iso, mem>>

\* IsoMap readOnly={!isReady || !isEditMode}
readOnly == ~isReady \/ ~isEditMode

\* handleHover(x, y, subTarget), from the pointerEnter of a tile or of a mesh on it
HandleHover(x, y, subTarget) ==
    /\ hoveredTile' = Some([x |-> x, y |-> y, subTarget |-> subTarget])
    /\ pointerLog' = [NoPointerEvent EXCEPT !.ev = "hover", !.x = x, !.y = y]
    /\ UNCHANGED <<appVars, dragStart, gesture, mem>>

\* handleLeave
HandleLeave ==
    /\ IsDefined(hoveredTile)
    /\ hoveredTile' = Undefined
    /\ pointerLog' = [NoPointerEvent EXCEPT !.ev = "leave"]
    /\ UNCHANGED <<appVars, dragStart, gesture, mem>>

\* the left button goes down on a tile: handlePointerDown(x, y, subTarget)
HandlePointerDown(x, y, subTarget) ==
    /\ gesture = Undefined
    /\ gesture' = Some(<< x, y >>)
    /\ dragStart' = IF ~readOnly /\ activeTool = "Select"
                    THEN Some([x |-> x, y |-> y, subTarget |-> subTarget])
                    ELSE dragStart
    /\ pointerLog' = [NoPointerEvent EXCEPT !.ev = "down", !.x = x, !.y = y,
                                            !.sub = subTarget, !.tool = activeTool,
                                            !.readOnly = readOnly]
    /\ UNCHANGED <<appVars, hoveredTile, mem>>

\* the left button goes down on the canvas outside the grid: no handler of IsoMap runs
PressOutside ==
    /\ gesture = Undefined
    /\ gesture' = Some(Outside)
    /\ pointerLog' = [NoPointerEvent EXCEPT !.ev = "pressOutside"]
    /\ UNCHANGED <<appVars, dragStart, hoveredTile, mem>>

\* the button is released outside the grid: no handler of IsoMap runs
ReleaseOutside ==
    /\ IsDefined(gesture)
    /\ gesture' = Undefined
    /\ pointerLog' = [NoPointerEvent EXCEPT !.ev = "releaseOutside", !.source = dragStart,
                                            !.pressed = gesture]
    /\ UNCHANGED <<appVars, dragStart, hoveredTile, mem>>

\* the left button is released on a tile: handlePointerUp(x, y, subTarget), with the
\* handler of App it calls
HandlePointerUp(x, y, subTarget, brush) ==
    /\ IsDefined(gesture)
    /\ LET call == pointerUpCall(readOnly, activeTool, dragStart, x, y, subTarget)
       IN  /\ IF Len(call) = 0
              THEN UNCHANGED appVars
              ELSE IF call[1] = "click"
              THEN handleTileClick(call[2], call[3], call[4], brush)
              ELSE handleTileMove(call[2], call[3], call[4], call[5], call[6])
           /\ pointerLog' = [ev |-> "up", x |-> x, y |-> y, sub |-> subTarget,
                             tool |-> activeTool, readOnly |-> readOnly,
                             source |-> dragStart,
                             pressed |-> gesture, call |-> call]
    /\ dragStart' = IF readOnly THEN dragStart ELSE Undefined
    /\ gesture' = Undefined
    /\ UNCHANGED <<hoveredTile, mem>>

\* handleTileClick with the objects followed
HandleTileClickRefs(x, y, subTarget, brush) ==
    /\ activeTool # "Select" => mem.edits < MaxEdits
    /\ handleTileClick(x, y, subTarget, brush)
    /\ mem' = IF activeTool = "Select" THEN mem
              ELSE editedMem(mem, clickRefs(mem.heap, mem.grid, activeTool,
                                            x, y, subTarget, brush))
    /\ UNCHANGED iso

\* handleTileMove with the objects followed
HandleTileMoveRefs(fx, fy, tx, ty, subTarget) ==
    /\ mem.edits < MaxEdits
    /\ handleTileMove(fx, fy, tx, ty, subTarget)
    /\ mem' = IF moveAccepted(grid, fx, fy, tx, ty, subTarget)
              THEN editedMem(mem, moveRefs(mem.heap, mem.grid, fx, fy, tx, ty, subTarget))
              ELSE mem
    /\ UNCHANGED iso

\* handleInspectorUpdate with the objects followed
HandleInspectorUpdateRefs(updates) ==
    /\ mem.edits < MaxEdits
    /\ handleInspectorUpdate(updates)
    /\ mem' = editedMem(mem, inspectorRefs(mem.heap, mem.grid, Val(selectedTilePos),
                                           selectedSubTarget, updates))
    /\ UNCHANGED iso

\* undo and redo with the objects followed
UndoRefs ==
    /\ undo
    /\ mem' = undoMem(mem)
    /\ UNCHANGED iso

RedoRefs ==
    /\ redo
    /\ mem' = redoMem(mem)
    /\ UNCHANGED iso

----------------------------------------------------------------------------
(* Specification of the room engine: rooms are placed, erased, moved and edited *)

StoredGrids == {createInitialGrid, TwoRooms}
Tools == {"Select", "None", "WaitingRoom", "OperatorySuite"}
ClickCells == {<<0, 0>>, <<0, 2>>, <<1, 0>>}
InventoryCells == {<<2, 2>>, <<0, 2>>}
Brushes == {StyledBrush(1)}

Init == \E g \in StoredGrids : InitWith(g, FALSE)

Next ==
    \/ ToggleEditMode
    \/ \E t \in Tools : SelectTool(t)
    \/ \E c \in ClickCells : \E b \in Brushes :
          \E sub \in clickSubTargets(activeTool, grid[c[2]][c[1]]) :
          HandleTileClick(c[1], c[2], sub, b)
    \/ \E f \in ClickCells : \E t \in ClickCells \ {f} :
          \E sub \in subTargetsAt(grid[f[2]][f[1]]) :
             HandleTileMove(f[1], f[2], t[1], t[2], sub)
    \/ \E updates \in offeredUpdates : HandleInspectorUpdate(updates)
    \/ \E c \in InventoryCells : \E items \in ItemLists : HandleSaveInventory(c[1], c[2], items)
    \/ Undo
    \/ Redo

Spec == Init /\ [][Next]_vars

----------------------------------------------------------------------------
(* Specification of the wall engine: walls are placed, erased, moved and edited *)
(* on a design that holds a large room and a one-cell room                      *)

WallTools == {"Select", "None", "Door"}
WallCells == {<<0, 0>>, <<2, 2>>, <<0, 5>>}
WallBrushes == {PlainBrush(r) : r \in 0 .. 3}

InitWalls == InitWith(WalledRoom, FALSE)

NextWalls ==
    \/ ToggleEditMode
    \/ \E t \in WallTools : SelectTool(t)
    \/ \E c \in WallCells : \E sub \in clickSubTargets(activeTool, grid[c[2]][c[1]]) :
          \E b \in (IF activeTool = "Door" THEN WallBrushes ELSE {PlainBrush(0)}) :
             HandleTileClick(c[1], c[2], sub, b)
    \/ \E f \in WallCells : \E t \in WallCells \ {f} :
          \E sub \in subTargetsAt(grid[f[2]][f[1]]) :
             HandleTileMove(f[1], f[2], t[1], t[2], sub)
    \/ \E updates \in {u \in offeredUpdates : u.key \in {"rotation", "customColor"}} :
          HandleInspectorUpdate(updates)

SpecWalls == InitWalls /\ [][NextWalls]_vars

----------------------------------------------------------------------------
(* Specification of structural placement alone, from the empty grid *)

StructureTools == {"StraightWall", "Door", "Window"}
StructureCells == {<<7, 7>>}
StructureBrushes == {PlainBrush(r) : r \in 0 .. 3} \cup {StyledBrush(0)}

InitStructure == InitWith(createInitialGrid, FALSE)

NextStructure ==
    \/ ToggleEditMode
    \/ \E t \in StructureTools : SelectTool(t)
    \/ \E c \in StructureCells : \E b \in StructureBrushes :
          HandleTileClick(c[1], c[2], Undefined, b)

SpecStructure == InitStructure /\ [][NextStructure]_vars

----------------------------------------------------------------------------
(* Specification of the history: every kind of edit, undo and redo, with the   *)
(* timeline of the edits tracked                                               *)

HistoryTools == {"Select", "None", "WaitingRoom"}
HistoryCells == {<<0, 0>>, <<0, 5>>}

InitHistory == InitWith(Office, TRUE)

NextHistory ==
    \/ ToggleEditMode
    \/ \E t \in HistoryTools : SelectTool(t)
    \/ \E c \in HistoryCells : \E sub \in clickSubTargets(activeTool, grid[c[2]][c[1]]) :
          HandleTileClick(c[1], c[2], sub, StyledBrush(1))
    \/ \E f \in HistoryCells : \E t \in HistoryCells \ {f} :
          \E sub \in subTargetsAt(grid[f[2]][f[1]]) :
             HandleTileMove(f[1], f[2], t[1], t[2], sub)
    \/ \E updates \in {u \in offeredUpdates : u.key = "rotation"} :
          HandleInspectorUpdate(updates)
    \/ \E c \in HistoryCells : HandleSaveInventory(c[1], c[2], << "gloves" >>)
    \/ Undo
    \/ Redo

SpecHistory == InitHistory /\ [][NextHistory]_vars

----------------------------------------------------------------------------
(* Specification of the session: sign-out, sign-in and the workspace load,     *)
(* around a design with one inventory                                          *)

SessionGrids == {createInitialGrid, Office}
SessionCells == {<<0, 0>>}

InitSession == InitWith(Office, FALSE)

NextSession ==
    \/ ToggleEditMode
    \/ \E c \in SessionCells : HandleInventoryClick(c[1], c[2])
    \/ \E items \in ItemLists : SaveInventoryItems(items)
    \/ CloseInventory
    \/ SignOut
    \/ SignIn
    \/ \E g \in SessionGrids : SignInFromCache(g)
    \/ SessionRefresh
    \/ \E g \in SessionGrids : SessionRefreshFromCache(g)
    \/ \E g \in SessionGrids : LoadCompletes(g)
    \/ LoadStoreError
    \/ LoadFails
    \/ StatusExpires
    \/ Undo
    \/ Redo

SpecSession == InitSession /\ [][NextSession]_vars

----------------------------------------------------------------------------
(* Specification of the eraser as an operation of the engine: handleTileClick  *)
(* is called with any wall sub-target, also one past the end of the cell's     *)
(* wall list                                                                   *)

EraserTools == {"Select", "None"}
EraserCells == {<<0, 0>>, <<2, 2>>, <<0, 5>>}
EraserSubTargets == {Undefined} \cup {Some(i) : i \in 0 .. (MaxWallIndex + 1)}

InitEraser == InitWith(WalledRoom, FALSE)

NextEraser ==
    \/ ToggleEditMode
    \/ \E t \in EraserTools : SelectTool(t)
    \/ \E c \in EraserCells : \E sub \in EraserSubTargets :
          HandleTileClick(c[1], c[2], sub, PlainBrush(0))

SpecEraser == InitEraser /\ [][NextEraser]_vars

----------------------------------------------------------------------------
(* Specification of the objects: the wall engine, undo and redo on a design   *)
(* with walled cells, with every grid, row, tile record and wall list an      *)
(* object of the heap                                                          *)

RefTools == {"Select", "None", "Door"}
RefCells == {<<0, 0>>, <<0, 5>>}
RefBrushes == {PlainBrush(1)}

InitRefs ==
    /\ InitApp(WalledRoom, FALSE)
    /\ autosave = mountedRefs
    /\ effect = [deps |-> Undefined, cleanup |-> FALSE]
    /\ store = idleStore(Undefined)
    /\ payloadOrder = << >>
    /\ mem = loadedMem(WalledRoom)

NextRefs ==
    \/ ToggleEditMode
    \/ \E t \in RefTools : SelectTool(t)
    \/ \E c \in RefCells : \E sub \in clickSubTargets(activeTool, grid[c[2]][c[1]]) :
          \E b \in RefBrushes : HandleTileClickRefs(c[1], c[2], sub, b)
    \/ \E f \in RefCells : \E t \in RefCells \ {f} :
          \E sub \in subTargetsAt(grid[f[2]][f[1]]) :
             HandleTileMoveRefs(f[1], f[2], t[1], t[2], sub)
    \/ \E updates \in {u \in offeredUpdates : u.key = "rotation"} :
          HandleInspectorUpdateRefs(updates)
    \/ UndoRefs
    \/ RedoRefs

SpecRefs == InitRefs /\ [][NextRefs]_vars

----------------------------------------------------------------------------
(* Specification of the pointer protocol of IsoMap: presses, releases and     *)
(* hovers on two cells of a design with a walled one-cell room, under the     *)
(* Select tool and the eraser.  The toolbar and the tool palette are clicked  *)
(* while no button is down.                                                   *)

\* A one-cell operatory at (0,0) that carries a wall
WalledOffice ==
    clickUpdater(Office, "StraightWall", 0, 0, Undefined, PlainBrush(0))

DragTools == {"Select", "None"}
DragCells == {<<0, 0>>, <<0, 1>>}
HoverCells == {<<0, 1>>}

InitDrag == InitWith(WalledOffice, FALSE)

NextDrag ==
    \/ gesture = Undefined /\ ToggleEditMode
    \/ gesture = Undefined /\ \E t \in DragTools : SelectTool(t)
    \/ \E c \in DragCells : \E sub \in subTargetsAt(grid[c[2]][c[1]]) :
          HandlePointerDown(c[1], c[2], sub)
    \/ PressOutside
    \/ ReleaseOutside
    \/ \E c \in DragCells : \E sub \in subTargetsAt(grid[c[2]][c[1]]) :
          HandlePointerUp(c[1], c[2], sub, PlainBrush(0))
    \/ \E c \in HoverCells : HandleHover(c[1], c[2], Undefined)
    \/ HandleLeave

SpecDrag == InitDrag /\ [][NextDrag]_vars

----------------------------------------------------------------------------
(* Specification of the inventory: the item lists of two one-cell operatories, *)
(* one labelled and one not, are edited, and the rooms are relabelled          *)

\* stored design: an operatory "Dr. Smith" with an inventory at (3,0), and an
\* unlabelled operatory at (0,1) whose inventory was switched on in the inspector
InventoryRooms ==
    LET g1 == clickUpdater(createInitialGrid, "OperatorySuite", 3, 0, Undefined, StyledBrush(0))
        g2 == clickUpdater(g1, "OperatorySuite", 0, 1, Undefined, PlainBrush(0))
    IN  inspectorUpdater(g2, << 0, 1 >>, Undefined,
                         [key |-> "hasInventory", value |-> Some(TRUE)])

StockCells == {<<3, 0>>, <<0, 1>>}
StockLists == {<< >>, << "gloves" >>, << "masks", "gloves" >>}

InitInventory == InitWith(InventoryRooms, FALSE)

NextInventory ==
    \/ ToggleEditMode
    \/ \E c \in StockCells : HandleTileClick(c[1], c[2], Undefined, PlainBrush(0))
    \/ \E updates \in {u \in offeredUpdates : u.key = "label"} :
          HandleInspectorUpdate(updates)
    \/ \E c \in StockCells : \E items \in StockLists : HandleSaveInventory(c[1], c[2], items)
    \/ Undo
    \/ Redo

SpecInventory == InitInventory /\ [][NextInventory]_vars

----------------------------------------------------------------------------
(* Specification of selection: tiles and walls of two large rooms are clicked *)
(* and dragged under the Select tool, and one-cell rooms are painted          *)

SelectTools == {"Select", "OperatorySuite"}
\* the walled corner of the first room, its far corner, an inner cell of the second
\* room, and a cell below the rooms
SelectCells == {<<0, 0>>, <<4, 4>>, <<7, 2>>, <<0, 5>>}

InitSelect == InitWith(TwoRooms, FALSE)

NextSelect ==
    \/ gesture = Undefined /\ ToggleEditMode
    \/ gesture = Undefined /\ \E t \in SelectTools : SelectTool(t)
    \/ \E c \in SelectCells : \E sub \in subTargetsAt(grid[c[2]][c[1]]) :
          HandlePointerDown(c[1], c[2], sub)
    \/ \E c \in SelectCells : \E sub \in subTargetsAt(grid[c[2]][c[1]]) :
          HandlePointerUp(c[1], c[2], sub, PlainBrush(0))

SpecSelect == InitSelect /\ [][NextSelect]_vars

----------------------------------------------------------------------------
(* Specification of the autosave: the user changes the sky colour and places a *)
(* door, the effect debounces, runAutosave writes to a store that can become   *)
(* unreachable.  It starts after the load, when the effect has taken the loaded *)
(* workspace as its baseline.                                                  *)

AutosaveTools == {"Door"}
AutosaveCells == {<<7, 7>>}

InitAutosave ==
    /\ InitApp(createInitialGrid, FALSE)
    /\ autosave = [mountedRefs EXCEPT
                     !.skipNextAutosave = FALSE,
                     !.lastSavedKey = Some(autosavePayload("u1", createInitialGrid,
                                               DefaultWorldColor, DefaultFloorColor))]
    /\ effect = [deps |-> Some(<< Some("u1"), TRUE, createInitialGrid,
                                 DefaultWorldColor, DefaultFloorColor >>),
                 cleanup |-> FALSE]
    /\ store = idleStore(Some(autosavePayload("u1", createInitialGrid,
                                  DefaultWorldColor, DefaultFloorColor)))
    /\ payloadOrder = << "store" >>
    /\ mem = NoMem

\* what the user does
UserChanges ==
    \/ ToggleEditMode
    \/ \E t \in AutosaveTools : SelectTool(t)
    \/ \E c \in AutosaveCells : HandleTileClick(c[1], c[2], Undefined, PlainBrush(0))
    \/ \E color \in PaletteColors : SetWorldColor(color)

\* what React, the timers and the store do
AutosaveSteps ==
    \/ AutosaveEffect
    \/ AutosaveTimerFires
    \/ SaveSucceeds
    \/ SaveFails
    \/ StoreGoesDown
    \/ StoreRecovers

NextAutosave == UserChanges \/ AutosaveSteps

SpecAutosave == InitAutosave /\ [][NextAutosave]_vars

\* The same, with a user who changes nothing once the store has refused a request.
\* React runs a pending effect, a set timer fires, a request is answered and the
\* store comes back: these steps are not postponed for ever.
NextAutosaveQuiet == (~store.refused /\ UserChanges) \/ AutosaveSteps

SpecAutosaveQuiet ==
    /\ InitAutosave
    /\ [][NextAutosaveQuiet]_vars
    /\ WF_vars(AutosaveEffect)
    /\ WF_vars(AutosaveTimerFires)
    /\ WF_vars(SaveSucceeds)
    /\ WF_vars(SaveFails)
    /\ WF_vars(StoreRecovers)

----------------------------------------------------------------------------
(* Vocabulary of the properties *)

Cells == Coords \X Coords

\* the room part of a tile: everything but its position and its walls
RoomFields(tile) ==
    [roomType |-> tile.roomType, rotation |-> tile.rotation, label |-> tile.label,
     customColor |-> tile.customColor, variantX |-> tile.variantX,
     variantY |-> tile.variantY, hasInventory |-> tile.hasInventory,
     inventoryItems |-> tile.inventoryItems]

EmptyRoomFields ==
    [roomType |-> "None", rotation |-> 0, label |-> Undefined,
     customColor |-> Undefined, variantX |-> Undefined, variantY |-> Undefined,
     hasInventory |-> Undefined, inventoryItems |-> Undefined]

\* the cells <<x, y>> of the 5x5 footprint anchored at (ax, ay)
Footprint(ax, ay) == (ax .. (ax + 4)) \X (ay .. (ay + 4))

\* the large-room kinds of the data model
LargeRoomKinds == {"WaitingRoom", "OperatorySuite", "ImagingSuite"}
StructureKinds == {"StraightWall", "Door", "Window"}

\* the grid the last edit started from (pushHistory's snapshot), when there is one
Before == history[Len(history)]

----------------------------------------------------------------------------
(* Properties of the room engine, checked under Spec *)

\* C2: a click with a large-room tool writes all 25 cells of the clamped 5x5
\* footprint or no cell at all; it writes none exactly when a footprint cell is
\* occupied, and then the grid is unchanged.
C2_LargeRoomAtomicity ==
    [][(lastOp'.op = "click" /\ lastOp'.tool \in LargeRoomKinds) =>
          LET ax == Max(0, Min(lastOp'.x - 2, GRID_SIZE - 5))
              ay == Max(0, Min(lastOp'.y - 2, GRID_SIZE - 5))
              written == {c \in Cells : grid'[c[2]][c[1]] # grid[c[2]][c[1]]}
              blocked == \E c \in Footprint(ax, ay) : grid[c[2]][c[1]].roomType # "None"
          IN  /\ written = Footprint(ax, ay) \/ written = {}
              /\ blocked <=> written = {}
              /\ blocked => grid' = grid]_vars

\* C3: every cell that carries variantX / variantY lies in a complete 5x5 block
\* inside the grid whose 25 cells share one non-None roomType and carry their
\* offset from the block's top-left cell (so blocks never overlap).
C3_LargeRoomGroups ==
    \A c \in Cells :
        LET t == grid[c[2]][c[1]]
        IN  (IsDefined(t.variantX) \/ IsDefined(t.variantY)) =>
               /\ IsDefined(t.variantX) /\ IsDefined(t.variantY)
               /\ t.roomType # "None"
               /\ LET ax == c[1] - Val(t.variantX)
                      ay == c[2] - Val(t.variantY)
                  IN  /\ ax >= 0 /\ ay >= 0
                      /\ ax + 5 <= GRID_SIZE /\ ay + 5 <= GRID_SIZE
                      /\ \A m \in Footprint(ax, ay) :
                            /\ grid[m[2]][m[1]].roomType = t.roomType
                            /\ grid[m[2]][m[1]].variantX = Some(m[1] - ax)
                            /\ grid[m[2]][m[1]].variantY = Some(m[2] - ay)

\* a large room has just been placed next to another one
C3_RoomPlaced ==
    /\ lastOp.op = "click" /\ lastOp.tool = "WaitingRoom"
    /\ Before[0][0].roomType = "None"
    /\ grid[0][0].variantX = Some(0) /\ grid[0][0].variantY = Some(0)
    /\ grid[0][5].roomType # "None"

\* C7: when the preview predicate isDragValid is false for a drag from -> to,
\* handleTileMove(from, to, subTarget) leaves the grid as it was.
C7_RejectedMoveKeepsGrid ==
    [][(/\ lastOp'.op = "move"
        /\ ~isDragValid(grid, lastOp'.fx, lastOp'.fy, lastOp'.x, lastOp'.y, lastOp'.sub))
          => grid' = grid]_vars

\* C8: a drag of a member cell `from` of a large room to `to` targets the anchor
\* to - (from - sourceAnchor); it is rejected (grid unchanged) iff the target
\* footprint leaves the grid or a target cell outside the source footprint is
\* occupied; on success each target cell carries the room payload of the source
\* cell at the same offset with that offset as its variant, and each source cell
\* outside the target footprint is empty.
C8_DragFrom == {<<0, 0>>, <<1, 0>>, <<2, 2>>, <<0, 2>>}
C8_DragTo == {<<0, 0>>, <<0, 2>>, <<1, 0>>, <<3, 3>>, <<12, 12>>, <<2, 14>>}

C8_LargeRoomMove ==
    \A f \in C8_DragFrom : \A t \in C8_DragTo :
        LET src == grid[f[2]][f[1]]
        IN  (f # t /\ IsDefined(src.variantX) /\ IsDefined(src.variantY)) =>
            LET sax == f[1] - Val(src.variantX)
                say == f[2] - Val(src.variantY)
                tax == t[1] - (f[1] - sax)
                tay == t[2] - (f[2] - say)
                inside == /\ tax >= 0 /\ tay >= 0
                          /\ tax + 5 <= GRID_SIZE /\ tay + 5 <= GRID_SIZE
                collides == \E m \in Footprint(tax, tay) \ Footprint(sax, say) :
                                grid[m[2]][m[1]].roomType # "None"
                result == movedGrid(grid, f[1], f[2], t[1], t[2], Undefined)
            IN  IF ~inside \/ collides
                THEN result = grid
                ELSE /\ \A d \in Footprint(0, 0) :
                          RoomFields(result[tay + d[2]][tax + d[1]]) =
                             [RoomFields(grid[say + d[2]][sax + d[1]]) EXCEPT
                                 !.variantX = Some(d[1]), !.variantY = Some(d[2])]
                     /\ \A m \in Footprint(sax, say) \ Footprint(tax, tay) :
                          RoomFields(result[m[2]][m[1]]) = EmptyRoomFields
                     /\ result # grid

\* a large room has been dragged onto a footprint that overlaps its own
C8_RoomMoved ==
    /\ lastOp.op = "move" /\ lastOp.sub = Undefined
    /\ IsDefined(Before[lastOp.fy][lastOp.fx].variantX)
    /\ IsDefined(Before[lastOp.y][lastOp.x].variantX)
    /\ IsDefined(grid[lastOp.y][lastOp.x].variantX)
    /\ grid # Before

\* C10: an eraser click on a member of a large room (no wall sub-target) resets
\* the room fields of all 25 cells of the room's footprint and leaves the room
\* fields of every other cell unchanged, also next to a room of the same type.
C10_EraseLargeRoomExact ==
    [][(/\ lastOp'.op = "click" /\ lastOp'.tool = "None" /\ lastOp'.sub = Undefined
        /\ IsDefined(grid[lastOp'.y][lastOp'.x].variantX)
        /\ IsDefined(grid[lastOp'.y][lastOp'.x].variantY))
          => LET ax == lastOp'.x - Val(grid[lastOp'.y][lastOp'.x].variantX)
                 ay == lastOp'.y - Val(grid[lastOp'.y][lastOp'.x].variantY)
             IN  \A c \in Cells :
                    RoomFields(grid'[c[2]][c[1]]) =
                       IF c \in Footprint(ax, ay)
                       THEN EmptyRoomFields
                       ELSE RoomFields(grid[c[2]][c[1]])]_vars

\* a large room has been erased while the room of the same type next to it stays
C10_RoomErased ==
    /\ lastOp.op = "click" /\ lastOp.tool = "None" /\ lastOp.sub = Undefined
    /\ Before[lastOp.y][lastOp.x].roomType = "WaitingRoom"
    /\ IsDefined(Before[lastOp.y][lastOp.x].variantX)
    /\ grid[lastOp.y][lastOp.x].roomType = "None"
    /\ Before[0][5].roomType = "WaitingRoom"
    /\ grid[0][5] = Before[0][5]

----------------------------------------------------------------------------
(* Properties of the wall engine, checked under SpecWalls *)

\* C4: in every reachable state no cell's placedWalls holds two entries with the
\* same rotation (so a cell has at most 4 walls).
C4_EdgeUniqueness ==
    \A c \in Cells :
        LET walls == grid[c[2]][c[1]].placedWalls
        IN  /\ \A i \in 1 .. Len(walls) : \A j \in 1 .. Len(walls) :
                  i # j => walls[i].rotation # walls[j].rotation
            /\ Len(walls) <= 4

\* C6: a structural-tool click with brush rotation r on a large-room member with
\* offsets (variantX, variantY) is accepted iff (r=0 and variantY=0) or (r=1 and
\* variantX=4) or (r=2 and variantY=4) or (r=3 and variantX=0); when it is not
\* accepted the grid is unchanged.
C6_PerimeterRule ==
    [][(/\ lastOp'.op = "click" /\ lastOp'.tool \in StructureKinds
        /\ IsDefined(grid[lastOp'.y][lastOp'.x].variantX)
        /\ IsDefined(grid[lastOp'.y][lastOp'.x].variantY))
          => LET r == lastOp'.arg.rotation
                 vx == Val(grid[lastOp'.y][lastOp'.x].variantX)
                 vy == Val(grid[lastOp'.y][lastOp'.x].variantY)
                 onPerimeter == \/ r = 0 /\ vy = 0
                                \/ r = 1 /\ vx = 4
                                \/ r = 2 /\ vy = 4
                                \/ r = 3 /\ vx = 0
                 placed == [type |-> lastOp'.tool, rotation |-> r,
                            customColor |-> lastOp'.arg.customColor]
                 walls == grid'[lastOp'.y][lastOp'.x].placedWalls
             IN  IF onPerimeter
                 THEN \E i \in 1 .. Len(walls) : walls[i] = placed
                 ELSE grid' = grid]_vars

\* a wall with rotation 2 has been refused on the member (0,0) of a large room
C6_WallRefused ==
    /\ lastOp.op = "click" /\ lastOp.tool = "Door"
    /\ lastOp.x = 0 /\ lastOp.y = 0 /\ lastOp.arg.rotation = 2
    /\ Before[0][0].variantX = Some(0) /\ Before[0][0].variantY = Some(0)
    /\ grid = Before

\* C9: an eraser click without a wall sub-target leaves the placedWalls of every
\* cell of the grid as it was.
C9_ErasePreservesWalls ==
    [][(lastOp'.op = "click" /\ lastOp'.tool = "None" /\ lastOp'.sub = Undefined)
          => \A c \in Cells :
                grid'[c[2]][c[1]].placedWalls = grid[c[2]][c[1]].placedWalls]_vars

\* a room has been erased from a cell that carries walls
C9_RoomErasedUnderWalls ==
    /\ lastOp.op = "click" /\ lastOp.tool = "None" /\ lastOp.sub = Undefined
    /\ Before[lastOp.y][lastOp.x].roomType # "None"
    /\ grid[lastOp.y][lastOp.x].roomType = "None"
    /\ Len(grid[lastOp.y][lastOp.x].placedWalls) > 0

----------------------------------------------------------------------------
(* Property of structural placement, checked under SpecStructure *)

\* C5: after any sequence of structural-tool clicks from the empty grid no cell
\* holds two walls of equal rotation; a placement on an edge that holds a wall
\* replaces that entry in place (same length, the new type and color take over),
\* a placement on a free edge appends exactly one entry.
C5_PlacementKeepsEdgesUnique ==
    [][(lastOp'.op = "click" /\ lastOp'.tool \in StructureKinds)
          => LET old == grid[lastOp'.y][lastOp'.x].placedWalls
                 new == grid'[lastOp'.y][lastOp'.x].placedWalls
                 placed == [type |-> lastOp'.tool, rotation |-> lastOp'.arg.rotation,
                            customColor |-> lastOp'.arg.customColor]
             IN  /\ IF \E i \in 1 .. Len(old) : old[i].rotation = placed.rotation
                    THEN /\ Len(new) = Len(old)
                         /\ \A i \in 1 .. Len(old) :
                               new[i] = IF old[i].rotation = placed.rotation
                                        THEN placed ELSE old[i]
                    ELSE new = Append(old, placed)
                 /\ \A c \in Cells :
                       LET walls == grid'[c[2]][c[1]].placedWalls
                       IN  /\ \A i \in 1 .. Len(walls) : \A j \in 1 .. Len(walls) :
                                 i # j => walls[i].rotation # walls[j].rotation
                           /\ c # << lastOp'.x, lastOp'.y >>
                                 => grid'[c[2]][c[1]] = grid[c[2]][c[1]]]_vars

\* a door has replaced the wall that stood on the same edge
C5_WallReplaced ==
    /\ lastOp.op = "click" /\ lastOp.tool = "Door"
    /\ Len(Before[lastOp.y][lastOp.x].placedWalls) = 1
    /\ Before[lastOp.y][lastOp.x].placedWalls[1].type = "StraightWall"
    /\ Len(grid[lastOp.y][lastOp.x].placedWalls) = 1
    /\ grid[lastOp.y][lastOp.x].placedWalls[1].type = "Door"

----------------------------------------------------------------------------
(* Property of the history, checked under SpecHistory *)

\* C1: after n edits, k undos (k <= n) make the grid equal to the grid before
\* the (n-k+1)-th edit and k redos then make it equal to the grid after the n-th
\* edit: the grid is always the entry of the edit timeline under the cursor.
C1_HistoryRoundTrip ==
    /\ cursor \in 1 .. Len(timeline)
    /\ grid = timeline[cursor]

\* two edits, two undos and one redo have been made
C1_UndoneAndRedone ==
    /\ lastOp.op = "redo"
    /\ Len(timeline) = 3 /\ cursor = 2
    /\ timeline[1] # timeline[2] /\ timeline[2] # timeline[3]
    /\ timeline[1] # timeline[3]

----------------------------------------------------------------------------
(* Classification, checked under Spec *)

\* C11: the engine's classifier (isLargeRoomType of App.tsx) is true exactly for
\* WaitingRoom, OperatorySuite and ImagingSuite, and agrees with the classifier
\* of the preview code (IsoMapConstants.ts) on every tool mode; stated for the
\* tool in hand and for every room type on the grid.
C11_ClassifiersAgree ==
    /\ \A t \in ToolModes :
          /\ isLargeRoomType(t) <=> t \in LargeRoomKinds
          /\ isLargeRoomType(t) <=> IsoMap_isLargeRoomType(t)
    /\ isLargeRoomType(activeTool) <=> activeTool \in LargeRoomKinds
    /\ \A c \in Cells :
          isLargeRoomType(grid[c[2]][c[1]].roomType)
             <=> IsoMap_isLargeRoomType(grid[c[2]][c[1]].roomType)

----------------------------------------------------------------------------
(* Placement geometry, checked under Spec *)

\* C12: a click (x, y) with a large-room tool (WaitingRoom, OperatorySuite or
\* ImagingSuite) on a free footprint anchors the room at
\* (max(0, min(x-2, 10)), max(0, min(y-2, 10))), inside the grid ((7,7) gives
\* (5,5)); the 25 footprint cells get the tool as roomType, the brush's rotation
\* and customColor and their offsets as variants; only offset (2,2) gets the
\* brush's label and hasInventory; inventoryItems is cleared on all of them;
\* every other cell is unchanged.
C12_LargeRoomPlacement ==
    [][(lastOp'.op = "click" /\ lastOp'.tool \in LargeRoomKinds) =>
          LET ax == Max(0, Min(lastOp'.x - 2, 10))
              ay == Max(0, Min(lastOp'.y - 2, 10))
              brush == lastOp'.arg
              free == \A m \in Footprint(ax, ay) : grid[m[2]][m[1]].roomType = "None"
          IN  /\ clampedStart(7) = 5
              /\ ax = clampedStart(lastOp'.x) /\ ay = clampedStart(lastOp'.y)
              /\ ax + 5 <= GRID_SIZE /\ ay + 5 <= GRID_SIZE
              /\ free =>
                    \A c \in Cells :
                       LET new == grid'[c[2]][c[1]]
                           isCenter == c = << ax + 2, ay + 2 >>
                       IN  IF c \in Footprint(ax, ay)
                           THEN /\ new.roomType = lastOp'.tool
                                /\ new.rotation = brush.rotation
                                /\ new.customColor = brush.customColor
                                /\ new.variantX = Some(c[1] - ax)
                                /\ new.variantY = Some(c[2] - ay)
                                /\ new.label = IF isCenter THEN brush.label ELSE Undefined
                                /\ new.hasInventory = Some(isCenter /\ brush.hasInventory)
                                /\ new.inventoryItems = Undefined
                           ELSE new = grid[c[2]][c[1]]]_vars

----------------------------------------------------------------------------
(* The centre of a large room, checked under Spec *)

\* C13: in every reachable state a member of a large room other than the one
\* with variantX = variantY = 2 has no label, no hasInventory = true and no
\* inventory items.
C13_CentreIsSoleBearer ==
    \A c \in Cells :
        LET t == grid[c[2]][c[1]]
        IN  (hasVariant(t) /\ ~(t.variantX = Some(2) /\ t.variantY = Some(2))) =>
               /\ ~IsDefined(t.label)
               /\ t.hasInventory # Some(TRUE)
               /\ t.inventoryItems \in {Undefined, Some(<< >>)}

----------------------------------------------------------------------------
(* The perimeter rule as an invariant, checked under SpecWalls *)

\* C14: in every reachable state every wall of a member of a large room lies on
\* the room's outer boundary for its rotation: rotation 0 only where
\* variantY = 0, 1 only where variantX = 4, 2 only where variantY = 4 and 3 only
\* where variantX = 0.
C14_WallsOnPerimeter ==
    \A c \in Cells :
        LET t == grid[c[2]][c[1]]
        IN  hasVariant(t) =>
               \A i \in 1 .. Len(t.placedWalls) :
                  LET r == t.placedWalls[i].rotation
                  IN  /\ r = 0 => t.variantY = Some(0)
                      /\ r = 1 => t.variantX = Some(4)
                      /\ r = 2 => t.variantY = Some(4)
                      /\ r = 3 => t.variantX = Some(0)

----------------------------------------------------------------------------
(* Properties of the history, checked under SpecHistory *)

\* the handlers that record an edit
EditOps == {"click", "move", "inspector", "saveInventory"}

\* C15: an edit recorded while future is non-empty leaves future empty, so the
\* grids redo can bring back are always the grids of the current line of edits
\* that follow the current one, never a grid of an abandoned branch.
C15_EditClearsFuture ==
    /\ [](/\ Len(future) = Len(timeline) - cursor
           /\ \A i \in 1 .. Len(future) : future[i] = timeline[cursor + i])
    /\ [][(lastOp'.op \in EditOps /\ Len(future) > 0) => future' = << >>]_vars

\* an edit has been made after an undo and has dropped the undone grid
C15_EditAfterUndo ==
    /\ lastOp.op \in EditOps
    /\ discarded > 0
    /\ future = << >>
    /\ Len(history) > 0 /\ grid # Before

----------------------------------------------------------------------------
(* Snapshots, checked under Spec *)

\* C16: every handler run that changes the grid (paint or erase click, wall
\* move, room move, inspector update of a room or a wall, inventory save) makes
\* past longer by exactly one entry, and that entry is the grid immediately
\* before the edit, also when the edit writes many cells.
C16_OneSnapshotPerEdit ==
    [][(lastOp'.op \in EditOps /\ grid' # grid) => history' = Append(history, grid)]_vars

\* a 25-cell placement has pushed its one snapshot
C16_BlockPlacedOnce ==
    /\ lastOp.op = "click" /\ lastOp.tool = "WaitingRoom"
    /\ Len(history) = 1
    /\ Cardinality({c \in Cells : grid[c[2]][c[1]] # Before[c[2]][c[1]]}) = 25

----------------------------------------------------------------------------
(* Undo and redo, checked under SpecHistory *)

\* C17: in every reachable state, undo with an empty past and redo with an empty
\* future leave grid, past and future as they are; otherwise undo makes the top
\* of past the grid, removes it from past and puts the old grid at the front of
\* future, and redo makes the front of future the grid, removes it from future
\* and appends the old grid to past; |past| + |future| is unchanged by both.
C17_UndoRedoConserve ==
    LET u == undoResult(grid, history, future)
        r == redoResult(grid, history, future)
    IN  /\ IF Len(history) = 0
           THEN u = << grid, history, future >>
           ELSE /\ u[1] = history[Len(history)]
                /\ Len(u[2]) = Len(history) - 1
                /\ u[2] = SubSeq(history, 1, Len(history) - 1)
                /\ Len(u[3]) = Len(future) + 1
                /\ u[3][1] = grid
                /\ SubSeq(u[3], 2, Len(u[3])) = future
        /\ IF Len(future) = 0
           THEN r = << grid, history, future >>
           ELSE /\ r[1] = future[1]
                /\ Len(r[3]) = Len(future) - 1
                /\ r[3] = SubSeq(future, 2, Len(future))
                /\ Len(r[2]) = Len(history) + 1
                /\ r[2][Len(r[2])] = grid
                /\ SubSeq(r[2], 1, Len(history)) = history
        /\ Len(u[2]) + Len(u[3]) = Len(history) + Len(future)
        /\ Len(r[2]) + Len(r[3]) = Len(history) + Len(future)

\* one of two edits has been undone: past and future hold one grid each, so
\* both an undo and a redo would act
C17_OneOfTwoUndone ==
    /\ lastOp.op = "undo"
    /\ Len(history) = 1 /\ Len(future) = 1
    /\ grid # future[1] /\ grid # history[1]

----------------------------------------------------------------------------
(* Loading and the history, checked under SpecSession *)

\* C18: a workspace load (from the cache or from the remote store) pushes
\* nothing onto past or future; both stacks are empty immediately after a load
\* completes and whenever no user is signed in.
C18_LoadKeepsHistoryEmpty ==
    /\ []((lastOp.op = "load" \/ ~IsDefined(user)) => (history = << >> /\ future = << >>))
    /\ [][lastOp'.op = "load" => UNCHANGED <<history, future>>]_vars

----------------------------------------------------------------------------
(* Wall move, checked under SpecWalls *)

RECURSIVE WallsInRow(_, _)
\* the number of walls on the cells 0 .. x of a row
WallsInRow(row, x) ==
    IF x < 0 THEN 0 ELSE Len(row[x].placedWalls) + WallsInRow(row, x - 1)

RECURSIVE WallsInRows(_, _)
\* the number of walls on the rows 0 .. y of a grid
WallsInRows(g, y) ==
    IF y < 0 THEN 0 ELSE WallsInRow(g[y], GRID_SIZE - 1) + WallsInRows(g, y - 1)

WallCount(g) == WallsInRows(g, GRID_SIZE - 1)

\* C19: a drag of wall i of cell `from` to another cell `to` is rejected (grid
\* and history unchanged) iff `to` holds a wall of the same rotation or `to` is
\* a member of a large room and the rotation fails the perimeter test for
\* `to`'s offsets; on success the wall leaves `from`'s list and becomes the last
\* entry of `to`'s list unchanged, the number of walls of the grid and every
\* room field stay the same, and the selection becomes `to` with the index of
\* the moved wall.
C19_WallMove ==
    /\ [](\A f \in WallCells : \A t \in WallCells \ {f} :
            \A i \in 1 .. Len(grid[f[2]][f[1]].placedWalls) :
               LET w == grid[f[2]][f[1]].placedWalls[i]
                   target == grid[t[2]][t[1]]
                   sameEdge == \E j \in 1 .. Len(target.placedWalls) :
                                  target.placedWalls[j].rotation = w.rotation
                   offPerimeter ==
                       /\ hasVariant(target)
                       /\ ~ \/ w.rotation = 0 /\ target.variantY = Some(0)
                            \/ w.rotation = 1 /\ target.variantX = Some(4)
                            \/ w.rotation = 2 /\ target.variantY = Some(4)
                            \/ w.rotation = 3 /\ target.variantX = Some(0)
                   result == movedGrid(grid, f[1], f[2], t[1], t[2], Some(i - 1))
               IN  /\ (sameEdge \/ offPerimeter)
                         <=> ~moveAccepted(grid, f[1], f[2], t[1], t[2], Some(i - 1))
                   /\ IF sameEdge \/ offPerimeter
                      THEN result = grid
                      ELSE /\ result[f[2]][f[1]].placedWalls =
                                 SubSeq(grid[f[2]][f[1]].placedWalls, 1, i - 1)
                                 \o SubSeq(grid[f[2]][f[1]].placedWalls, i + 1,
                                           Len(grid[f[2]][f[1]].placedWalls))
                           /\ result[t[2]][t[1]].placedWalls = Append(target.placedWalls, w)
                           /\ WallCount(result) = WallCount(grid)
                           /\ \A c \in Cells :
                                 /\ RoomFields(result[c[2]][c[1]]) = RoomFields(grid[c[2]][c[1]])
                                 /\ c \notin {f, t} => result[c[2]][c[1]] = grid[c[2]][c[1]])
    /\ [][(lastOp'.op = "move" /\ IsDefined(lastOp'.sub)) =>
             /\ history' = Append(history, grid)
             /\ selectedTilePos' = Some(<< lastOp'.x, lastOp'.y >>)
             /\ IsDefined(selectedSubTarget')
             /\ Val(selectedSubTarget') + 1 = Len(grid'[lastOp'.y][lastOp'.x].placedWalls)
             /\ grid'[lastOp'.y][lastOp'.x].placedWalls[Val(selectedSubTarget') + 1]
                   = grid[lastOp'.fy][lastOp'.fx].placedWalls[Val(lastOp'.sub) + 1]]_vars

\* a wall has been dragged onto a cell that carried a wall already and is
\* selected there as the second entry
C19_WallMoved ==
    /\ lastOp.op = "move" /\ IsDefined(lastOp.sub)
    /\ Len(Before[lastOp.y][lastOp.x].placedWalls) = 1
    /\ Len(grid[lastOp.y][lastOp.x].placedWalls) = 2
    /\ grid[lastOp.y][lastOp.x].placedWalls[2]
          = Before[lastOp.fy][lastOp.fx].placedWalls[Val(lastOp.sub) + 1]
    /\ selectedTilePos = Some(<< lastOp.x, lastOp.y >>)
    /\ selectedSubTarget = Some(1)

----------------------------------------------------------------------------
(* Single-tile move, checked under SpecWalls *)

\* C20: a drag of a single-tile room from `from` to another cell `to` is
\* rejected (grid unchanged) iff `to` has a roomType other than None; otherwise
\* `to` receives the room payload of `from` (roomType, rotation, label,
\* customColor, hasInventory, inventoryItems) with its own x, y, `from` becomes
\* empty, each of the two cells keeps its own placedWalls and no other cell
\* changes.
C20_SingleTileMove ==
    \A f \in WallCells : \A t \in WallCells \ {f} :
        LET src == grid[f[2]][f[1]]
            dst == grid[t[2]][t[1]]
            result == movedGrid(grid, f[1], f[2], t[1], t[2], Undefined)
        IN  (src.roomType # "None" /\ ~hasVariant(src)) =>
               /\ dst.roomType # "None"
                     <=> ~moveAccepted(grid, f[1], f[2], t[1], t[2], Undefined)
               /\ IF dst.roomType # "None"
                  THEN result = grid
                  ELSE /\ RoomFields(result[t[2]][t[1]]) = RoomFields(src)
                       /\ result[t[2]][t[1]].x = t[1] /\ result[t[2]][t[1]].y = t[2]
                       /\ result[t[2]][t[1]].placedWalls = dst.placedWalls
                       /\ RoomFields(result[f[2]][f[1]]) = EmptyRoomFields
                       /\ result[f[2]][f[1]].x = f[1] /\ result[f[2]][f[1]].y = f[2]
                       /\ result[f[2]][f[1]].placedWalls = src.placedWalls
                       /\ \A c \in Cells \ {f, t} : result[c[2]][c[1]] = grid[c[2]][c[1]]

\* a one-cell room has been dragged from a cell with a wall to a free cell with
\* two walls
C20_TileMoved ==
    /\ lastOp.op = "move" /\ lastOp.sub = Undefined
    /\ Before[lastOp.fy][lastOp.fx].roomType = "OperatorySuite"
    /\ Before[lastOp.y][lastOp.x].roomType = "None"
    /\ grid[lastOp.y][lastOp.x].roomType = "OperatorySuite"
    /\ grid[lastOp.fy][lastOp.fx].roomType = "None"
    /\ Len(grid[lastOp.fy][lastOp.fx].placedWalls) = 1
    /\ Len(grid[lastOp.y][lastOp.x].placedWalls) = 2

----------------------------------------------------------------------------
(* Walls under a moved room, checked under SpecWalls *)

\* C21: a successful room move (large room or single tile), also one whose
\* source and target footprints overlap, leaves the placedWalls list of every
\* cell of the grid exactly as it was.
C21_WallsStayUnderMove ==
    [][(lastOp'.op = "move" /\ lastOp'.sub = Undefined /\ grid' # grid) =>
          \A c \in Cells :
             grid'[c[2]][c[1]].placedWalls = grid[c[2]][c[1]].placedWalls]_vars

\* a large room has been dragged from its walled corner (0,0) onto a footprint
\* that overlaps its own; the corner is empty and keeps its two walls
C21_RoomMovedOffItsWalls ==
    /\ lastOp.op = "move" /\ lastOp.sub = Undefined
    /\ lastOp.fx = 0 /\ lastOp.fy = 0 /\ lastOp.x = 2 /\ lastOp.y = 2
    /\ Before[0][0].variantX = Some(0)
    /\ grid[0][0].roomType = "None"
    /\ Len(grid[0][0].placedWalls) = 2
    /\ grid[2][2].variantX = Some(0) /\ grid[4][4].variantX = Some(2)

----------------------------------------------------------------------------
(* Wall-targeted erase, checked under SpecEraser *)

----------------------------------------------------------------------------
(* Single-tile placement, checked under Spec *)

\* C23: a click with a single-tile room tool (a room tool the engine does not
\* classify as large) on a cell whose roomType is not None leaves the grid
\* unchanged; on a cell with roomType None only that cell changes: roomType
\* becomes the tool, rotation, label, customColor and hasInventory come from the
\* brush, variantX / variantY and inventoryItems are absent and placedWalls is
\* preserved.
C23_SingleTilePlacement ==
    [][(/\ lastOp'.op = "click"
        /\ lastOp'.tool \notin StructureKinds \cup {"None", "Select"}
        /\ ~isLargeRoomType(lastOp'.tool)) =>
          LET x == lastOp'.x
              y == lastOp'.y
              brush == lastOp'.arg
          IN  IF grid[y][x].roomType # "None"
              THEN grid' = grid
              ELSE /\ grid'[y][x] =
                         [x |-> x, y |-> y, roomType |-> lastOp'.tool,
                          rotation |-> brush.rotation, label |-> brush.label,
                          customColor |-> brush.customColor,
                          variantX |-> Undefined, variantY |-> Undefined,
                          hasInventory |-> Some(brush.hasInventory),
                          inventoryItems |-> Undefined,
                          placedWalls |-> grid[y][x].placedWalls]
                   /\ \A c \in Cells \ {<< x, y >>} :
                         grid'[c[2]][c[1]] = grid[c[2]][c[1]]]_vars

\* a one-cell room has been placed on a free cell that carries a wall
C23_TilePlacedOnWall ==
    /\ lastOp.op = "click" /\ lastOp.tool = "OperatorySuite"
    /\ Before[lastOp.y][lastOp.x].roomType = "None"
    /\ Len(Before[lastOp.y][lastOp.x].placedWalls) = 1
    /\ grid[lastOp.y][lastOp.x].roomType = "OperatorySuite"
    /\ grid[lastOp.y][lastOp.x].placedWalls = Before[lastOp.y][lastOp.x].placedWalls

\* the grids, rows, tile records and wall lists the three states refer to hold what
\* grid, history and future say
RefsAgree ==
    /\ deref(mem.heap, mem.grid) = grid
    /\ Len(mem.history) = Len(history)
    /\ Len(mem.future) = Len(future)
    /\ \A i \in 1 .. Len(history) : deref(mem.heap, mem.history[i]) = history[i]
    /\ \A i \in 1 .. Len(future) : deref(mem.heap, mem.future[i]) = future[i]

\* C24: no operation writes into an object that existed before it (the heap only
\* grows), so the grid object of every snapshot in history or future, and with it the
\* snapshot that undo or redo pops, has the content it was pushed with, also after
\* wall-list edits on a cell of the snapshot
C24_SnapshotsImmutable ==
    /\ [](RefsAgree)
    /\ [][\A a \in 1 .. Len(mem.heap) : mem'.heap[a] = mem.heap[a]]_vars

\* two walls were added to the wall list of cell (0,5) one after the other and the
\* second edit was undone: the snapshot left in history has neither, the grid that
\* undo popped has the first, the grid it pushed to future has both
C24_UndoneAfterWallEdits ==
    /\ lastOp.op = "undo"
    /\ Len(history) = 1
    /\ Len(future) = 1
    /\ Len(history[1][5][0].placedWalls) < Len(grid[5][0].placedWalls)
    /\ Len(grid[5][0].placedWalls) < Len(future[1][5][0].placedWalls)
    /\ mem.history[1] # mem.grid

\* C27: a load attempt that ends because the store answered with an error, or because
\* the request was rejected, leaves grid, worldColor and floorColor as they were and
\* sets a transient status message
C27_LoadFailureKeepsState ==
    [][(workspaceLoading /\ ~workspaceLoading' /\ lastOp'.op \in {"loadError", "loadFailed"})
        => /\ grid' = grid
           /\ worldColor' = worldColor
           /\ floorColor' = floorColor
           /\ IsDefined(statusMessage')
           /\ Val(statusMessage') \in TransientMessages]_vars

\* a step of handlePointerUp
PointerUpStep == IsDefined(gesture) /\ pointerLog'.ev = "up" /\ gesture' = Undefined

\* C25: in edit mode, a pointerUp on B under the Select tool that ends a gesture begun
\* by a pointerDown on A makes exactly the call click(B, sub-target under the pointer)
\* when A = B, which changes neither grid nor history, and the call move(A, B,
\* sub-target latched at A) when A # B, which leaves what handleTileMove leaves;
\* under another tool it makes the call click(B, ...), which paints or erases;
\* and dragStart is null after it.  (Outside edit mode IsoMap is read-only:
\* handlePointerUp returns at once, makes no call and leaves dragStart as it is.)
C25_DragProtocol ==
    /\ []((pointerLog.ev = "up" /\ ~pointerLog.readOnly)
            => /\ dragStart = Undefined
               /\ (pointerLog.tool = "Select" /\ IsDefined(pointerLog.pressed)
                   /\ Val(pointerLog.pressed) # Outside)
                    => /\ IsDefined(pointerLog.source)
                       /\ << Val(pointerLog.source).x, Val(pointerLog.source).y >>
                             = Val(pointerLog.pressed)
                       /\ pointerLog.call =
                            IF Val(pointerLog.pressed) = << pointerLog.x, pointerLog.y >>
                            THEN << "click", pointerLog.x, pointerLog.y, pointerLog.sub >>
                            ELSE << "move", Val(pointerLog.pressed)[1],
                                    Val(pointerLog.pressed)[2], pointerLog.x, pointerLog.y,
                                    Val(pointerLog.source).subTarget >>
               /\ pointerLog.tool # "Select"
                    => pointerLog.call
                         = << "click", pointerLog.x, pointerLog.y, pointerLog.sub >>)
    /\ [][(PointerUpStep /\ ~readOnly)
            => IF Len(pointerLog'.call) = 0
               THEN UNCHANGED << grid, history, future >>
               ELSE IF pointerLog'.call[1] = "move"
               THEN /\ activeTool = "Select"
                    /\ grid' = movedGrid(grid, pointerLog'.call[2], pointerLog'.call[3],
                                         pointerLog'.call[4], pointerLog'.call[5],
                                         pointerLog'.call[6])
               ELSE IF activeTool = "Select"
               THEN UNCHANGED << grid, history, future >>
               ELSE grid' = clickUpdater(grid, activeTool, pointerLog'.call[2],
                                         pointerLog'.call[3], pointerLog'.call[4],
                                         PlainBrush(0))]_vars

\* a wall was dragged from (0,0) to (0,1) in one gesture and has arrived
C25_WallDragged ==
    /\ pointerLog.ev = "up"
    /\ pointerLog.pressed = Some(<< 0, 0 >>)
    /\ pointerLog.call = << "move", 0, 0, 0, 1, Some(0) >>
    /\ lastOp.op = "move"
    /\ Len(grid[1][0].placedWalls) = 1
    /\ dragStart = Undefined

\* C26: pointerDown, hover, leave and a press or release outside the grid change
\* neither grid nor history nor future, and a pointerUp on B moves something from A
\* only when the button went down on A in the same gesture
C26_CancelledDragsNeverEdit ==
    [][/\ (iso' # iso /\ pointerLog'.ev # "up") => UNCHANGED << grid, history, future >>
       /\ (PointerUpStep /\ Len(pointerLog'.call) > 0 /\ pointerLog'.call[1] = "move"
           /\ grid' # grid)
            => gesture = Some(<< pointerLog'.call[2], pointerLog'.call[3] >>)]_vars

\* C28: a failed autosave leaves grid, history and future alone, leaves lastSavedKey
\* at its value, clears the in-flight flag (the flag is set again at once, for the
\* queued payload, exactly when a payload that differs from the saved one was queued
\* during the request) and leaves what the editing handlers are guarded by
C28_SaveFailureKeepsState ==
    [][SaveFails
        => /\ UNCHANGED << grid, history, future >>
           /\ autosave'.lastSavedKey = autosave.lastSavedKey
           /\ autosave'.pendingAutosave = Undefined
           /\ IF IsDefined(autosave.pendingAutosave)
                 /\ autosave.pendingAutosave # autosave.lastSavedKey
              THEN autosave'.autosaveInFlight /\ store'.request = autosave.pendingAutosave
              ELSE ~autosave'.autosaveInFlight /\ store'.request = Undefined
           /\ statusMessage' = Some(AutosaveFailedMessage)
           /\ UNCHANGED << isEditMode, activeTool, user, workspaceLoading >>]_vars

\* a door was placed after an autosave had failed: the store holds the last saved
\* workspace, which is not the current one, and no request is in flight
C28_EditedAfterFailedSave ==
    /\ lastOp.op = "click"
    /\ store.refused
    /\ ~autosave.autosaveInFlight
    /\ store.design = autosave.lastSavedKey
    /\ autosave.lastSavedKey # Some(autosavePayload(Val(user), grid, worldColor, floorColor))
    /\ Len(grid[7][7].placedWalls) = 1

\* the store holds the current workspace
WorkspaceStored ==
    store.design = Some(autosavePayload(Val(user), grid, worldColor, floorColor))

\* C29: once an autosave has failed, the current workspace is eventually written to
\* the store, also when the user changes nothing after the failure (the store comes
\* back and stays reachable)
C29_FailedSaveIsRetried ==
    store.refused ~> WorkspaceStored

\* C30: a click under the Select tool on (x, y) with the sub-target wall:i selects
\* ((x, y), wall:i); without a wall sub-target it selects, on a tile of a large room
\* type, (x - variantX, y - variantY) and on any other tile (x, y), both without a
\* sub-target; it changes neither grid nor history nor future.  Every tile of a large
\* room type carries its offsets, and the cell they point back to is inside the grid
\* and is the tile of that room type with the offsets (0, 0): the members of one room
\* all resolve to the room's anchor.
C30_SelectionResolver ==
    /\ [](\A c \in Cells :
            LET tile == grid[c[2]][c[1]]
            IN  isLargeRoomType(tile.roomType)
                    => /\ hasVariant(tile)
                       /\ << c[1] - Val(tile.variantX), c[2] - Val(tile.variantY) >> \in Cells
                       /\ LET a == grid[c[2] - Val(tile.variantY)][c[1] - Val(tile.variantX)]
                          IN  /\ a.roomType = tile.roomType
                              /\ a.variantX = Some(0)
                              /\ a.variantY = Some(0))
    /\ [][(PointerUpStep /\ activeTool = "Select" /\ Len(pointerLog'.call) > 0
            /\ pointerLog'.call[1] = "click")
            => LET x == pointerLog'.call[2]
                   y == pointerLog'.call[3]
                   sub == pointerLog'.call[4]
                   tile == grid[y][x]
               IN  /\ UNCHANGED << grid, history, future >>
                   /\ IF IsDefined(sub)
                      THEN /\ selectedTilePos' = Some(<< x, y >>)
                           /\ selectedSubTarget' = sub
                      ELSE /\ selectedSubTarget' = Undefined
                           /\ selectedTilePos' =
                                IF isLargeRoomType(tile.roomType)
                                THEN Some(<< x - Val(tile.variantX), y - Val(tile.variantY) >>)
                                ELSE Some(<< x, y >>)]_vars

\* the far corner (4,4) of the room anchored at (0,0) was clicked: the anchor is selected
C30_MemberClicked ==
    /\ pointerLog.ev = "up"
    /\ pointerLog.tool = "Select"
    /\ pointerLog.call = << "click", 4, 4, Undefined >>
    /\ isLargeRoomType(grid[4][4].roomType)
    /\ grid[4][4].variantX = Some(4)
    /\ selectedTilePos = Some(<< 0, 0 >>)
    /\ selectedSubTarget = Undefined

----------------------------------------------------------------------------
(* Rendering of large rooms, checked under Spec *)

Rotations == 0 .. 3
IndexSquare == Offsets \X Offsets

\* the design position drawn at a tile of a large room: RoomFurniture passes the
\* tile's offsets and rotation
drawnVariant(tile) ==
    getEffectiveVariant(Val(tile.variantX), Val(tile.variantY), tile.rotation)

\* C31: for each rotation r in 0..3 getEffectiveVariant(., ., r) maps the 5x5 index
\* square one-to-one onto itself; rotation r followed by rotation (4 - r) % 4 returns
\* the offsets it started from; rotation 0 is the identity.  So it is for the tiles
\* of the grid: the design position drawn at a member of a large room lies in the
\* square and turns back to the member's offsets.
C31_EffectiveVariantRotation ==
    /\ \A r \in Rotations :
          /\ \A v \in IndexSquare :
                LET e == getEffectiveVariant(v[1], v[2], r)
                    b == getEffectiveVariant(e.col, e.row, (4 - r) % 4)
                IN  /\ << e.col, e.row >> \in IndexSquare
                    /\ << b.col, b.row >> = v
          /\ \A v, w \in IndexSquare :
                getEffectiveVariant(v[1], v[2], r) = getEffectiveVariant(w[1], w[2], r)
                    => v = w
          /\ { << getEffectiveVariant(v[1], v[2], r).col,
                  getEffectiveVariant(v[1], v[2], r).row >> : v \in IndexSquare }
                = IndexSquare
    /\ \A v \in IndexSquare : getEffectiveVariant(v[1], v[2], 0) = [col |-> v[1], row |-> v[2]]
    /\ \A c \in Coords \X Coords :
          LET tile == grid[c[2]][c[1]]
          IN  (IsoMap_isLargeRoomType(tile.roomType) /\ hasVariant(tile))
                => /\ tile.rotation \in Rotations
                   /\ << drawnVariant(tile).col, drawnVariant(tile).row >> \in IndexSquare
                   /\ getEffectiveVariant(drawnVariant(tile).col, drawnVariant(tile).row,
                                          (4 - tile.rotation) % 4)
                        = [col |-> Val(tile.variantX), row |-> Val(tile.variantY)]

\* the waiting room anchored at (0,0) was turned to rotation 3 in the inspector: its
\* anchor tile draws the design position (4, 0)
C31_RoomTurnedThrice ==
    /\ grid[0][0].roomType = "WaitingRoom"
    /\ grid[0][0].variantX = Some(0)
    /\ grid[0][0].variantY = Some(0)
    /\ grid[0][0].rotation = 3
    /\ lastOp.op = "inspector"
    /\ drawnVariant(grid[0][0]) = [col |-> 4, row |-> 0]

----------------------------------------------------------------------------
(* Shape of the grid, checked under Spec *)

\* g has GRID_SIZE rows of GRID_SIZE tiles, each with its array position in x and y
WellShaped(g) ==
    /\ DOMAIN g = Coords
    /\ \A y \in Coords :
          /\ DOMAIN g[y] = Coords
          /\ \A x \in Coords : g[y][x].x = x /\ g[y][x].y = y

\* C34: in every state reached by edits, undos and redos the grid has exactly 15
\* rows of 15 cells and the record at grid[y][x] has the fields x and y of its
\* position, also after an erase, a large-room move and a single-tile move; so
\* have the snapshots of past and future.
C34_GridShape ==
    /\ GRID_SIZE = 15
    /\ WellShaped(grid)
    /\ \A i \in 1 .. Len(history) : WellShaped(history[i])
    /\ \A i \in 1 .. Len(future) : WellShaped(future[i])

\* a one-cell operatory was moved from (0,0) to (0,2): the record that arrived has
\* the position (0,2), the record left behind the position (0,0), and the snapshot
\* taken before the move is well shaped too
C34_TileMovedInShape ==
    /\ lastOp.op = "move"
    /\ lastOp.fx = 0 /\ lastOp.fy = 0 /\ lastOp.x = 0 /\ lastOp.y = 2
    /\ grid[2][0].roomType = "OperatorySuite"
    /\ grid[2][0].x = 0 /\ grid[2][0].y = 2
    /\ grid[0][0].roomType = "None"
    /\ Len(history) > 0
    /\ history[Len(history)][0][0].roomType = "OperatorySuite"

----------------------------------------------------------------------------
(* Derived inventory, checked under SpecInventory *)

\* the items of the cell with the row-major index n
itemsOfCell(g, n) ==
    LET tile == g[n \div GRID_SIZE][n % GRID_SIZE]
    IN  IF IsDefined(tile.inventoryItems) THEN Val(tile.inventoryItems) ELSE << >>

\* the number of items in the cells before the cell with the row-major index n
itemsBefore(g) ==
    LET inRow[y \in Coords, x \in 0 .. GRID_SIZE] ==
            IF x = 0 THEN 0 ELSE inRow[y, x - 1] + Len(itemsOfCell(g, y * GRID_SIZE + x - 1))
        rows[y \in 0 .. GRID_SIZE] ==
            IF y = 0 THEN 0 ELSE rows[y - 1] + inRow[y - 1, GRID_SIZE]
    IN  [n \in 0 .. GRID_SIZE * GRID_SIZE |->
            IF n = GRID_SIZE * GRID_SIZE THEN rows[GRID_SIZE]
            ELSE rows[n \div GRID_SIZE] + inRow[n \div GRID_SIZE, n % GRID_SIZE]]

----------------------------------------------------------------------------
(* Inventory save, checked under Spec *)

TileFields ==
    {"x", "y", "roomType", "rotation", "label", "customColor", "variantX", "variantY",
     "hasInventory", "inventoryItems", "placedWalls"}

\* C33: handleSaveInventory for the cell (x, y) sets inventoryItems of that cell to
\* the items it was given and leaves every other field of the cell and every other
\* cell as it was, the other members of a large room included; past gets exactly
\* one more entry, the grid before the save.
C33_InventorySaveOneCell ==
    [][(lastOp'.op = "saveInventory" /\ history' # history)
        => /\ \A c \in Cells :
                IF c = << lastOp'.x, lastOp'.y >>
                THEN /\ grid'[c[2]][c[1]].inventoryItems = Some(lastOp'.arg)
                     /\ \A f \in TileFields \ {"inventoryItems"} :
                           grid'[c[2]][c[1]][f] = grid[c[2]][c[1]][f]
                ELSE grid'[c[2]][c[1]] = grid[c[2]][c[1]]
           /\ history' = Append(history, grid)]_vars

\* the inventory of the centre (2,2) of a waiting room was saved: the centre holds
\* the items, its neighbour (1,2) in the same room holds none
C33_RoomInventorySaved ==
    /\ lastOp.op = "saveInventory" /\ lastOp.x = 2 /\ lastOp.y = 2
    /\ grid[2][2].roomType = "WaitingRoom"
    /\ grid[2][2].variantX = Some(2)
    /\ grid[2][2].inventoryItems = Some(<< "gloves" >>)
    /\ grid[2][1].roomType = "WaitingRoom"
    /\ grid[2][1].inventoryItems # Some(<< "gloves" >>)

----------------------------------------------------------------------------
(* Attributes of large rooms, checked under Spec *)

\* the cells of the 5x5 block whose top-left cell is a
BlockAt(a) == {c \in Cells : inBlock(c[1], c[2], a[1], a[2])}

\* the anchor the offsets of the tile at c point back to
AnchorOf(g, c) ==
    << c[1] - Val(g[c[2]][c[1]].variantX), c[2] - Val(g[c[2]][c[1]].variantY) >>

\* C35: in every reachable state the 25 cells of a large room have one room type,
\* one rotation and one customColor; an inspector update of rotation or customColor
\* with a cell of a large room selected (no wall sub-target) writes that field on
\* the 25 cells of the room, whichever of its cells is selected, and leaves their
\* other fields and every cell outside the room as they were.  (Large rooms are the
\* rooms the engine places as blocks: the types isLargeRoomType of App accepts.)
C35_UniformRoomAttributes ==
    /\ [](\A c \in Cells :
            isLargeRoomType(grid[c[2]][c[1]].roomType)
                => /\ hasVariant(grid[c[2]][c[1]])
                   /\ Cardinality(BlockAt(AnchorOf(grid, c))) = 25
                   /\ \A d \in BlockAt(AnchorOf(grid, c)) :
                         /\ grid[d[2]][d[1]].roomType = grid[c[2]][c[1]].roomType
                         /\ grid[d[2]][d[1]].rotation = grid[c[2]][c[1]].rotation
                         /\ grid[d[2]][d[1]].customColor = grid[c[2]][c[1]].customColor)
    /\ [][(/\ lastOp'.op = "inspector"
           /\ history' # history
           /\ lastOp'.arg.key \in {"rotation", "customColor"}
           /\ ~IsDefined(selectedSubTarget)
           /\ isLargeRoomType(grid[Val(selectedTilePos)[2]][Val(selectedTilePos)[1]].roomType))
            => \A d \in Cells :
                  IF d \in BlockAt(AnchorOf(grid, Val(selectedTilePos)))
                  THEN /\ grid'[d[2]][d[1]][lastOp'.arg.key] = lastOp'.arg.value
                       /\ \A f \in TileFields \ {lastOp'.arg.key} :
                             grid'[d[2]][d[1]][f] = grid[d[2]][d[1]][f]
                  ELSE grid'[d[2]][d[1]] = grid[d[2]][d[1]]]_vars

\* a room was dragged from (0,0) to (0,2), the move was undone, and the room was
\* turned in the inspector with the selection still on (0,2), now an inner cell of
\* its left edge: the whole room has the new rotation
C35_TurnedFromStaleSelection ==
    /\ lastOp.op = "inspector"
    /\ lastOp.arg.key = "rotation"
    /\ selectedTilePos = Some(<< 0, 2 >>)
    /\ selectedSubTarget = Undefined
    /\ grid[2][0].roomType = "WaitingRoom"
    /\ grid[2][0].variantY = Some(2)
    /\ grid[0][0].rotation = lastOp.arg.value
    /\ grid[4][4].rotation = lastOp.arg.value

----------------------------------------------------------------------------
(* Rejected clicks, checked under Spec *)

\* C36: a paint or erase click that leaves the grid as it was (footprint blocked,
\* target occupied, wall on a cell that is not on the perimeter, eraser on an empty
\* cell) leaves past and future as they were
C36_RejectedClickKeepsHistory ==
    [][(lastOp'.op = "click" /\ lastOp' # lastOp /\ grid' = grid)
        => UNCHANGED << history, future >>]_vars

----------------------------------------------------------------------------
(* Placement preview, checked under Spec *)

PaintTools == RoomTypes \ {"None"}

\* the click on (x, y) with the tool takes a rejection branch of handleTileClick
clickRejected(g, tool, x, y, brush) ==
    IF isStructureType(tool)
    THEN isLargeRoomType(g[y][x].roomType)
         /\ ~isPerimeter(brush.rotation,
                         IF IsDefined(g[y][x].variantX) THEN Val(g[y][x].variantX) ELSE 0,
                         IF IsDefined(g[y][x].variantY) THEN Val(g[y][x].variantY) ELSE 0)
    ELSE IF isLargeRoomType(tool)
    THEN isBlocked(g, clampedStart(x), clampedStart(y))
    ELSE g[y][x].roomType # "None"

\* the cells the click on (x, y) with the tool writes when it is not rejected
writtenCells(g, tool, x, y) ==
    IF ~isStructureType(tool) /\ isLargeRoomType(tool)
    THEN {c \in Coords \X Coords : inBlock(c[1], c[2], clampedStart(x), clampedStart(y))}
    ELSE {<< x, y >>}

\* C37: for the grid of every reachable state, every room or structure tool, every
\* brush rotation and every hovered cell, isValidPlacement is false exactly when the
\* click on that cell takes a rejection branch and leaves the grid as it is, and the
\* cells the preview highlights are the cells the click writes
C37_PreviewAgreesWithEngine ==
    \A tool \in PaintTools : \A r \in 0 .. 3 : \A c \in Coords \X Coords :
        /\ ~isValidPlacement(grid, tool, c[1], c[2], PlainBrush(r))
              <=> /\ clickRejected(grid, tool, c[1], c[2], PlainBrush(r))
                  /\ clickUpdater(grid, tool, c[1], c[2], Undefined, PlainBrush(r)) = grid
        /\ previewTiles(grid, tool, c[1], c[2]) = writtenCells(grid, tool, c[1], c[2])

----------------------------------------------------------------------------
(* C38: once the workspace of the signed-in user is loaded, an auth event that
   delivers the same user again starts no load and leaves the grid, the colours,
   history and future as they are; no load is in flight while the workspace of the
   signed-in user is loaded, and two loads are never in flight together *)

sessionRefreshed ==
    \/ SessionRefresh
    \/ \E g \in SessionGrids : SessionRefreshFromCache(g)

C38_NoReloadOverEdits ==
    /\ [](loadsInFlight <= 1)
    /\ []((IsDefined(user) /\ loadedUserIdRef = user) => loadsInFlight = 0)
    /\ [][(sessionRefreshed /\ loadedUserIdRef = user)
           => UNCHANGED << grid, worldColor, floorColor, history, future,
                           workspaceLoading, loadsInFlight, loadedUserIdRef >>]_vars

\* a session refresh arrived after the loaded workspace was edited
C38_RefreshedAfterEdit ==
    /\ lastOp.op = "refresh"
    /\ IsDefined(user)
    /\ loadedUserIdRef = user
    /\ Len(history) > 0
    /\ grid # Office

----------------------------------------------------------------------------
(* C39: at most one saveWorkspace call is in flight; a payload handed to runAutosave
   while a call is in flight replaces the queued payload and starts no request; when
   the call settles, with success or failure, the queued payload is sent at once
   unless it equals the last payload saved, and the queue is empty afterwards; the
   payloads are held in the order store, request, queue, timer from the oldest to
   the newest, so that what the store writes is never older than what it holds *)

holderRank(holder) ==
    CASE holder = "store" -> 0
      [] holder = "request" -> 1
      [] holder = "pending" -> 2
      [] holder = "timer" -> 3

\* the payloads the holders hold, in the order of payloadOrder
heldPayloads ==
    [i \in DOMAIN payloadOrder |->
        CASE payloadOrder[i] = "store" -> store.design
          [] payloadOrder[i] = "request" -> store.request
          [] payloadOrder[i] = "pending" -> autosave.pendingAutosave
          [] payloadOrder[i] = "timer" -> autosave.autosaveTimer]

C39_AutosaveSerialised ==
    /\ [](store.calls <= 1)
    /\ []((store.calls = 1) = autosave.autosaveInFlight)
    /\ [](IsDefined(store.request) = autosave.autosaveInFlight)
    /\ [](IsDefined(autosave.pendingAutosave) => autosave.autosaveInFlight)
    /\ [](\A i, j \in DOMAIN payloadOrder :
             i < j => holderRank(payloadOrder[i]) < holderRank(payloadOrder[j]))
    /\ [](\A i \in DOMAIN payloadOrder : IsDefined(heldPayloads[i]))
    /\ [][(AutosaveTimerFires /\ autosave.autosaveInFlight)
           => /\ autosave'.pendingAutosave = autosave.autosaveTimer
              /\ store' = store]_vars
    /\ [][(SaveSucceeds \/ SaveFails)
           => /\ autosave'.pendingAutosave = Undefined
              /\ store'.design = IF SaveSucceeds THEN store.request ELSE store.design
              /\ IF IsDefined(autosave.pendingAutosave)
                    /\ autosave.pendingAutosave # autosave'.lastSavedKey
                 THEN /\ autosave'.autosaveInFlight
                      /\ store'.request = autosave.pendingAutosave
                      /\ store'.calls = 1
                 ELSE /\ ~autosave'.autosaveInFlight
                      /\ store'.request = Undefined
                      /\ store'.calls = 0]_vars

\* a call is in flight, a newer payload is queued behind it and a still newer one
\* waits for the debounce timer
C39_QueuedBehindRequest ==
    /\ payloadOrder = << "store", "request", "pending", "timer" >>
    /\ autosave.pendingAutosave # store.request
    /\ autosave.autosaveTimer # autosave.pendingAutosave

----------------------------------------------------------------------------
(* C40: while edit mode is off, no user is signed in or a workspace load is in
   progress, no tile click, pointer release or move and no undo or redo shortcut
   changes grid, history or future; leaving edit mode sets the tool to Select and
   clears the selection, and leaves the grid as it is *)

editingGated == ~isEditMode \/ ~IsDefined(user) \/ workspaceLoading

editingCall ==
    \/ Undo
    \/ Redo
    \/ \E c \in SessionCells :
          \/ HandleTileClick(c[1], c[2], Undefined, PlainBrush(0))
          \/ HandlePointerUp(c[1], c[2], Undefined, PlainBrush(0))
          \/ \E d \in SessionCells : HandleTileMove(c[1], c[2], d[1], d[2], Undefined)

C40_EditModeGating ==
    /\ [][(editingGated /\ editingCall) => UNCHANGED << grid, history, future >>]_vars
    /\ [][(ToggleEditMode /\ isEditMode)
           => /\ activeTool' = "Select"
              /\ selectedTilePos' = Undefined
              /\ selectedSubTarget' = Undefined
              /\ grid' = grid]_vars

====
